---- MODULE Spec2Model ----
(***************************************************************************)
(* Status reconciliation and funnel aggregation of the ZBM report scripts. *)
(* Strings are sequences of one-character strings, so that strip, casefold,*)
(* replace and lexicographic sorting are computed character by character.  *)
(***************************************************************************)
EXTENDS Integers, Sequences, FiniteSets, TLC

----------------------------------------------------------------------------
(* Bounds of the explored inputs *)

\* rows of the tracker and of the rule sheet in a run of the report script
MaxRows == 2
MaxRules == 1
\* length of the strings given to the normalizers
MaxLen == 5
\* rows of the rule sheet when the rule table is built row by row
MaxSheetRows == 2
\* rows of a request beyond one row per status of its rule
MaxRepeat == 1
\* largest leaf counter of a summary row, and most summary rows of one ZBM
MaxCount == 3
MaxSummaryRows == 2
\* number of ZBMs of a draft run
MaxZbms == 2
\* tracker rows of the ZBM whose summary table is built
MaxZbmRows == 2
\* raw tracker rows given to the cleaning step
MaxRawRows == 1
\* rows of the ABM summary table written to a report
MaxTableRows == 2

----------------------------------------------------------------------------
(* Characters and strings *)

\* The characters used, in ascending code-point order; CrossMark stands for
\* the one character U+274C, whose code point is above every ASCII character.
CrossMark == "(U+274C)"
CodePoints == <<" ", "&", "/", "0", "1", "2", "3", "4", "5", "6", "7", "8", "9", "A", "B", "C", "D", "E", "F", "G", "H", "I", "J", "K", "L", "M", "N", "O", "P", "Q", "R", "S", "T", "U", "V", "W", "X", "Y", "Z", "a", "b", "c", "d", "e", "f", "g", "h", "i", "j", "k", "l", "m", "n", "o", "p", "q", "r", "s", "t", "u", "v", "w", "x", "y", "z">> \o <<CrossMark>>
Code(c) == CHOOSE i \in DOMAIN CodePoints : CodePoints[i] = c

\* A missing cell (pandas NaN): a value that is no string.
NaN == <<"float:nan">>

SeqToSet(s) == {s[i] : i \in DOMAIN s}

\* Python's str(): a string is itself, NaN prints as 'nan'.
Str(text) == IF text = NaN THEN <<"n", "a", "n">> ELSE text

\* str.casefold() on one character: ASCII upper case to lower case.
UpperCase == {CodePoints[i] : i \in Code("A")..Code("Z")}
casefold_char(c) == IF c \in UpperCase THEN CodePoints[Code(c) + 26] ELSE c
casefold(s) == [i \in 1..Len(s) |-> casefold_char(s[i])]

RECURSIVE lstrip(_)
lstrip(s) == IF s # <<>> /\ Head(s) = " " THEN lstrip(Tail(s)) ELSE s
RECURSIVE rstrip(_)
rstrip(s) == IF s # <<>> /\ s[Len(s)] = " " THEN rstrip(SubSeq(s, 1, Len(s) - 1)) ELSE s
strip(s) == rstrip(lstrip(s))

\* str.replace('  ', ' '): one left-to-right pass over non-overlapping matches.
RECURSIVE replace_double_space(_)
replace_double_space(s) ==
    IF Len(s) < 2 THEN s
    ELSE IF s[1] = " " /\ s[2] = " "
         THEN <<" ">> \o replace_double_space(SubSeq(s, 3, Len(s)))
         ELSE <<s[1]>> \o replace_double_space(Tail(s))

\* Python's < on strings: lexicographic by code point, from index i on.
RECURSIVE less_from(_, _, _)
less_from(a, b, i) ==
    IF i > Len(b) THEN FALSE
    ELSE IF i > Len(a) THEN TRUE
    ELSE IF a[i] = b[i] THEN less_from(a, b, i + 1)
    ELSE Code(a[i]) < Code(b[i])
StrLess(a, b) == less_from(a, b, 1)

\* sorted(set(...)) of strings, as a tuple.
RECURSIVE sorted_set(_)
sorted_set(S) ==
    IF S = {} THEN <<>>
    ELSE LET m == CHOOSE x \in S : \A y \in S \ {x} : StrLess(x, y)
         IN <<m>> \o sorted_set(S \ {m})


----------------------------------------------------------------------------
(* Status labels *)

\* 'Action pending / In Process'
S_APIP == <<"A", "c", "t", "i", "o", "n", " ", "p", "e", "n", "d", "i", "n", "g", " ", "/", " ", "I", "n", " ", "P", "r", "o", "c", "e", "s", "s">>
\* 'Delivered'
S_Delivered == <<"D", "e", "l", "i", "v", "e", "r", "e", "d">>
\* 'RTO'
S_RTO == <<"R", "T", "O">>
\* 'Out of stock'
S_OutOfStock == <<"O", "u", "t", " ", "o", "f", " ", "s", "t", "o", "c", "k">>
\* 'On hold'
S_OnHold == <<"O", "n", " ", "h", "o", "l", "d">>
\* 'Not permitted'
S_NotPermitted == <<"N", "o", "t", " ", "p", "e", "r", "m", "i", "t", "t", "e", "d">>
\* 'Dispatch Pending'
S_DispatchPending == <<"D", "i", "s", "p", "a", "t", "c", "h", " ", "P", "e", "n", "d", "i", "n", "g">>
\* 'Dispatched & In Transit'
S_InTransit == <<"D", "i", "s", "p", "a", "t", "c", "h", "e", "d", " ", "&", " ", "I", "n", " ", "T", "r", "a", "n", "s", "i", "t">>
\* 'Return'
S_Return == <<"R", "e", "t", "u", "r", "n">>
\* 'Request Raised'
S_RequestRaised == <<"R", "e", "q", "u", "e", "s", "t", " ", "R", "a", "i", "s", "e", "d">>
\* 'Not Permitted'
S_NotPermittedCap == <<"N", "o", "t", " ", "P", "e", "r", "m", "i", "t", "t", "e", "d">>
\* 'Unknown'
S_Unknown == <<"U", "n", "k", "n", "o", "w", "n">>
\* 'action pending / in process'
n_apip == <<"a", "c", "t", "i", "o", "n", " ", "p", "e", "n", "d", "i", "n", "g", " ", "/", " ", "i", "n", " ", "p", "r", "o", "c", "e", "s", "s">>
\* 'delivered'
n_delivered == <<"d", "e", "l", "i", "v", "e", "r", "e", "d">>
\* 'dispatch pending'
n_dispatch_pending == <<"d", "i", "s", "p", "a", "t", "c", "h", " ", "p", "e", "n", "d", "i", "n", "g">>
\* 'dispatched & in transit'
n_in_transit == <<"d", "i", "s", "p", "a", "t", "c", "h", "e", "d", " ", "&", " ", "i", "n", " ", "t", "r", "a", "n", "s", "i", "t">>
\* 'out of stock'
n_out_of_stock == <<"o", "u", "t", " ", "o", "f", " ", "s", "t", "o", "c", "k">>
\* 'return'
n_return == <<"r", "e", "t", "u", "r", "n">>
\* 'request raised'
n_request_raised == <<"r", "e", "q", "u", "e", "s", "t", " ", "r", "a", "i", "s", "e", "d">>
\* 'not permitted'
n_not_permitted == <<"n", "o", "t", " ", "p", "e", "r", "m", "i", "t", "t", "e", "d">>
\* the unmatched sentinel, U+274C followed by ' No matching rule'
NoMatchingRule == <<CrossMark>> \o <<" ", "N", "o", " ", "m", "a", "t", "c", "h", "i", "n", "g", " ", "r", "u", "l", "e">>

----------------------------------------------------------------------------
(* Status normalizer, rule table and resolvers *)

\* The scripts that build a rule table.
Variants == {"Claude", "corrected", "hierarchical"}

\* normalize of Claude.py: str(text).strip().casefold()
normalize(text) == casefold(strip(Str(text)))

\* normalize of the other scripts: one extra replace('  ', ' ') pass.
normalize_corrected(text) == replace_double_space(casefold(strip(Str(text))))

Normalize(variant, text) ==
    IF variant = "Claude" THEN normalize(text) ELSE normalize_corrected(text)

\* Series.dropna().tolist() of a row's cells
dropna(cells) == SelectSeq(cells, LAMBDA c : c # NaN)

\* the dict rules after rules[key] = value
DictSet(d, key, value) ==
    [k \in (DOMAIN d) \cup {key} |-> IF k = key THEN value ELSE d[k]]

\* statuses = tuple(sorted(set(normalize(s) for s in row.drop('Final Answer').dropna())))
rule_key(variant, row) ==
    sorted_set({Normalize(variant, c) : c \in SeqToSet(dropna(row.cells))})

\* one iteration of "for _, row in sheet2.iterrows()"
load_rule_row(variant, d, row) == DictSet(d, rule_key(variant, row), row.fa)

RECURSIVE load_rules(_, _, _)
load_rules(variant, d, sheet) ==
    IF sheet = <<>> THEN d
    ELSE load_rules(variant, load_rule_row(variant, d, Head(sheet)), Tail(sheet))

\* additional_rules of create_corrected_zbm_reports.py (and, identically, of
\* create_zbm_outlook_emails.py), in the order of the dict literal
additional_rules_corrected == <<
    [key |-> <<n_apip, n_delivered>>, fa |-> S_Delivered],
    [key |-> <<n_apip, n_in_transit>>, fa |-> S_InTransit],
    [key |-> <<n_apip, n_dispatch_pending>>, fa |-> S_DispatchPending],
    [key |-> <<n_apip, n_out_of_stock>>, fa |-> S_OutOfStock],
    [key |-> <<n_apip, n_return>>, fa |-> S_Return],
    [key |-> <<n_delivered, n_return>>, fa |-> S_Delivered],
    [key |-> <<n_dispatch_pending, n_delivered>>, fa |-> S_Delivered],
    [key |-> <<n_dispatch_pending, n_in_transit>>, fa |-> S_InTransit],
    [key |-> <<n_dispatch_pending, n_return>>, fa |-> S_Return],
    [key |-> <<n_in_transit, n_return>>, fa |-> S_InTransit],
    [key |-> <<n_out_of_stock, n_return>>, fa |-> S_OutOfStock],
    [key |-> <<n_request_raised, n_apip>>, fa |-> S_APIP],
    [key |-> <<n_request_raised, n_delivered>>, fa |-> S_Delivered],
    [key |-> <<n_request_raised, n_dispatch_pending>>, fa |-> S_DispatchPending],
    [key |-> <<n_request_raised, n_in_transit>>, fa |-> S_InTransit],
    [key |-> <<n_request_raised, n_out_of_stock>>, fa |-> S_OutOfStock],
    [key |-> <<n_request_raised, n_return>>, fa |-> S_Return] >>

\* additional_rules of hierarchical_zbm_summary.py
additional_rules_hierarchical == <<
    [key |-> <<n_not_permitted>>, fa |-> S_NotPermittedCap],
    [key |-> <<n_delivered, n_out_of_stock, n_return>>, fa |-> S_Delivered],
    [key |-> <<n_apip, n_dispatch_pending, n_out_of_stock>>, fa |-> S_DispatchPending],
    [key |-> <<n_dispatch_pending, n_not_permitted>>, fa |-> S_NotPermittedCap] >>

additional_rules(variant) ==
    IF variant = "corrected" THEN additional_rules_corrected
    ELSE IF variant = "hierarchical" THEN additional_rules_hierarchical
    ELSE <<>>

\* rules.update(additional_rules): the literal keys are stored as written
RECURSIVE dict_update(_, _)
dict_update(d, items) ==
    IF items = <<>> THEN d
    ELSE dict_update(DictSet(d, Head(items).key, Head(items).fa), Tail(items))

\* the rule table a script resolves with
build_rules(variant, sheet) ==
    dict_update(load_rules(variant, <<>>, sheet), additional_rules(variant))

\* key = tuple(sorted(set(normalize(s) for s in status_list)))
candidate_key(variant, status_list) ==
    sorted_set({Normalize(variant, s) : s \in SeqToSet(status_list)})

\* mutant: an unmatched request keeps its first raw status
get_final_answer_passthrough(variant, d, status_list) ==
    LET key == candidate_key(variant, status_list)
    IN IF key \in DOMAIN d THEN d[key] ELSE status_list[1]
\* get_final_answer: rules.get(key, sentinel)
get_final_answer(variant, d, status_list) ==
    LET key == candidate_key(variant, status_list)
    IN IF key \in DOMAIN d THEN d[key] ELSE NoMatchingRule

\* mutant: the flag requires every status of the request to be the pending one
has_action_pending_all(status_list) ==
    \A i \in DOMAIN status_list : normalize(status_list[i]) = n_apip
\* has_action_pending: any(normalize(s) == 'action pending / in process')
has_action_pending(status_list) ==
    \E i \in DOMAIN status_list : normalize(status_list[i]) = n_apip

\* Series.mode().iloc[0]: the smallest of the most frequent non-null values
Occurrences(lst, v) == Cardinality({i \in DOMAIN lst : lst[i] = v})
\* mutant: the smallest non-null value, whatever its frequency
mode_smallest(lst) ==
    LET vals == SeqToSet(dropna(lst))
    IN IF vals = {} THEN S_Unknown
       ELSE CHOOSE v \in vals : \A w \in vals \ {v} : StrLess(v, w)
mode_first(lst) ==
    LET vals == SeqToSet(dropna(lst))
        top  == {v \in vals : \A w \in vals : Occurrences(lst, w) <= Occurrences(lst, v)}
    IN IF vals = {} THEN S_Unknown
       ELSE CHOOSE v \in top : \A w \in top \ {v} : StrLess(v, w)

\* compute_final_answer of create_corrected_zbm_reports.py: the rule's value,
\* else the most common raw status
compute_final_answer(d, status_list) ==
    LET key == sorted_set({normalize_corrected(s) : s \in SeqToSet(dropna(status_list))})
    IN IF key \in DOMAIN d THEN d[key] ELSE mode_first(status_list)

\* the resolver of each script
resolve(variant, d, status_list) ==
    IF variant = "corrected" THEN compute_final_answer(d, status_list)
    ELSE get_final_answer(variant, d, status_list)

----------------------------------------------------------------------------
(* create_zbm_hierarchical_reports of Claude.py: cleaning, resolution,     *)
(* per-ABM funnel counters, mismatch warning, per-ZBM report               *)

\* required_columns, in the order of the list
required_columns == <<"ZBM Terr Code", "ZBM Name", "ZBM EMAIL_ID",
                      "ABM Terr Code", "ABM Name", "ABM EMAIL_ID",
                      "TBM HQ", "TBM EMAIL_ID",
                      "Doctor: Customer Code", "Assigned Request Ids", "Request Status",
                      "Rto Reason">>
\* mutant: the diagnostic names the first missing column only
first_missing_column(cols) ==
    LET all == SelectSeq(required_columns, LAMBDA c : c \notin cols)
    IN IF all = <<>> THEN <<>> ELSE <<Head(all)>>
\* missing = [c for c in required_columns if c not in df.columns]
missing_columns(cols) == SelectSeq(required_columns, LAMBDA c : c \notin cols)

\* df.dropna(subset=[...]), the blank-code filters and the 'ZN' prefix filter
is_blank(v) == strip(Str(v)) = <<>>
startswith_ZN(v) == Len(Str(v)) >= 2 /\ SubSeq(Str(v), 1, 2) = <<"Z", "N">>
clean(rows) ==
    SelectSeq(rows, LAMBDA r :
        /\ r.zbm # NaN /\ r.abm # NaN /\ r.abmName # NaN
        /\ ~is_blank(r.zbm) /\ ~is_blank(r.abm)
        /\ startswith_ZN(r.zbm))

\* df.groupby('Assigned Request Ids')['Request Status'].apply(list): NaN ids
\* belong to no group
request_ids(rows) == {rows[i].req : i \in DOMAIN rows} \ {NaN}
RECURSIVE column_of(_, _)
column_of(rows, req) ==
    IF rows = <<>> THEN <<>>
    ELSE (IF Head(rows).req = req THEN <<Head(rows).status>> ELSE <<>>)
         \o column_of(Tail(rows), req)

\* sorted(set(lst), key=str)
RECURSIVE sorted_by_str(_)
sorted_by_str(S) ==
    IF S = {} THEN <<>>
    ELSE LET m == CHOOSE x \in S : \A y \in S \ {x} : ~StrLess(Str(y), Str(x))
         IN <<m>> \o sorted_by_str(S \ {m})
status_list_of(rows, req) == sorted_by_str(SeqToSet(column_of(rows, req)))

\* grouped: Final Answer and Has D Pending per request id
grouped_of(rows, d) ==
    [q \in request_ids(rows) |->
        [fa   |-> get_final_answer("Claude", d, status_list_of(rows, q)),
         hasD |-> has_action_pending(status_list_of(rows, q))]]

\* df.merge(grouped[...], on='Assigned Request Ids', how='left')
merge_final_answer(rows, grouped) ==
    [i \in DOMAIN rows |->
        [zbm |-> rows[i].zbm, abm |-> rows[i].abm, abmName |-> rows[i].abmName,
         req |-> rows[i].req, status |-> rows[i].status,
         fa   |-> IF rows[i].req \in DOMAIN grouped THEN grouped[rows[i].req].fa ELSE NaN,
         hasD |-> IF rows[i].req \in DOMAIN grouped THEN grouped[rows[i].req].hasD ELSE NaN]]

\* zbms: the distinct ZBM Terr Codes, sort_values('ZBM Terr Code')
zbms_of(rows) == sorted_set({rows[i].zbm : i \in DOMAIN rows})
zbm_data_of(rows, zbm_code) == SelectSeq(rows, LAMBDA r : r.zbm = zbm_code)

\* abms: groupby(['ABM Terr Code', 'ABM Name']) then sort_values('ABM Terr Code')
AbmLess(p, q) == StrLess(p.code, q.code) \/ (p.code = q.code /\ StrLess(p.name, q.name))
RECURSIVE sorted_abms(_)
sorted_abms(S) ==
    IF S = {} THEN <<>>
    ELSE LET m == CHOOSE x \in S : \A y \in S \ {x} : AbmLess(x, y)
         IN <<m>> \o sorted_abms(S \ {m})
abms_of(zbm_data) ==
    sorted_abms({[code |-> zbm_data[i].abm, name |-> zbm_data[i].abmName] : i \in DOMAIN zbm_data})
abm_data_of(zbm_data, abm) ==
    SelectSeq(zbm_data, LAMBDA r : r.abm = abm.code /\ r.abmName = abm.name)

\* mutant: one entry per tracker row instead of one per request id
unique_requests_df_rows(abm_data) ==
    [i \in DOMAIN abm_data |-> [fa |-> abm_data[i].fa, hasD |-> abm_data[i].hasD]]
\* unique_requests_df: groupby('Assigned Request Ids').agg('first')
unique_requests_df(abm_data) ==
    [q \in request_ids(abm_data) |->
        LET i == CHOOSE j \in DOMAIN abm_data :
                    /\ abm_data[j].req = q
                    /\ \A k \in DOMAIN abm_data : abm_data[k].req = q => j <= k
        IN [fa |-> abm_data[i].fa, hasD |-> abm_data[i].hasD]]

mapped_answers == {S_OutOfStock, S_OnHold, S_NotPermitted, S_APIP,
                   S_DispatchPending, S_Delivered, S_InTransit, S_RTO}

NumericColumns == {"Unique Requests", "Requests Raised", "Request Cancelled Out of Stock",
                   "Action Pending at HO", "Sent to HUB", "Pending for Invoicing",
                   "Pending for Dispatch", "Requests Dispatched", "Delivered",
                   "Dispatched In Transit", "RTO"}

\* F = G + H + I
requests_dispatched_of(delivered, dispatched_in_transit, rto) ==
    delivered + dispatched_in_transit + rto
\* mutant: Sent to HUB that forgets Pending for Invoicing
sent_to_hub_without_invoicing(pending_for_invoicing, pending_for_dispatch, requests_dispatched) ==
    pending_for_dispatch + requests_dispatched
\* C = D + E + F
sent_to_hub_of(pending_for_invoicing, pending_for_dispatch, requests_dispatched) ==
    pending_for_invoicing + pending_for_dispatch + requests_dispatched
\* Requests Raised = A + B + C
requests_raised_of(request_cancelled_out_of_stock, action_pending_at_ho, sent_to_hub) ==
    request_cancelled_out_of_stock + action_pending_at_ho + sent_to_hub

\* mutant: Action Pending at HO that keeps the requests flagged Has D Pending
action_pending_with_flagged(u) ==
    Cardinality({q \in DOMAIN u : u[q].fa \in {S_APIP}})
\* B: Final Answer 'Action pending / In Process' and Has D Pending != True
action_pending_at_ho_of(u) ==
    Cardinality({q \in DOMAIN u : u[q].fa \in {S_APIP} /\ u[q].hasD # TRUE})
\* D: Has D Pending == True
pending_for_invoicing_of(u) ==
    Cardinality({q \in DOMAIN u : u[q].hasD = TRUE})

\* the request ids selected by each leaf filter of unique_requests_df
LeafColumns == {"Request Cancelled Out of Stock", "Action Pending at HO",
                "Pending for Invoicing", "Pending for Dispatch", "Delivered",
                "Dispatched In Transit", "RTO"}
leaf_members(u) ==
    ("Request Cancelled Out of Stock" :>
        {q \in DOMAIN u : u[q].fa \in {S_OutOfStock, S_OnHold, S_NotPermitted}}) @@
    ("Action Pending at HO" :> {q \in DOMAIN u : u[q].fa \in {S_APIP} /\ u[q].hasD # TRUE}) @@
    ("Pending for Invoicing" :> {q \in DOMAIN u : u[q].hasD = TRUE}) @@
    ("Pending for Dispatch" :> {q \in DOMAIN u : u[q].fa \in {S_DispatchPending}}) @@
    ("Delivered" :> {q \in DOMAIN u : u[q].fa \in {S_Delivered}}) @@
    ("Dispatched In Transit" :> {q \in DOMAIN u : u[q].fa \in {S_InTransit}}) @@
    ("RTO" :> {q \in DOMAIN u : u[q].fa \in {S_RTO}})

\* the counters of one ABM group, as the dict appended to summary_data
abm_summary(abm, abm_data) ==
    LET u == unique_requests_df(abm_data)
        A == Cardinality({q \in DOMAIN u : u[q].fa \in {S_OutOfStock, S_OnHold, S_NotPermitted}})
        B == action_pending_at_ho_of(u)
        D == pending_for_invoicing_of(u)
        E == Cardinality({q \in DOMAIN u : u[q].fa \in {S_DispatchPending}})
        G == Cardinality({q \in DOMAIN u : u[q].fa \in {S_Delivered}})
        H == Cardinality({q \in DOMAIN u : u[q].fa \in {S_InTransit}})
        I == Cardinality({q \in DOMAIN u : u[q].fa \in {S_RTO}})
        F == requests_dispatched_of(G, H, I)
        C == sent_to_hub_of(D, E, F)
    IN  [abm_code |-> abm.code, abm_name |-> abm.name,
         cells |->
            ("Unique Requests" :> Cardinality(DOMAIN u)) @@
            ("Requests Raised" :> requests_raised_of(A, B, C)) @@
            ("Request Cancelled Out of Stock" :> A) @@
            ("Action Pending at HO" :> B) @@
            ("Sent to HUB" :> C) @@
            ("Pending for Invoicing" :> D) @@
            ("Pending for Dispatch" :> E) @@
            ("Requests Dispatched" :> F) @@
            ("Delivered" :> G) @@
            ("Dispatched In Transit" :> H) @@
            ("RTO" :> I)]

\* mutant: the unmatched sentinel is left out of the enumeration
unmapped_without_sentinel(abm_data) ==
    LET u == unique_requests_df(abm_data)
    IN ({u[q].fa : q \in DOMAIN u} \ mapped_answers) \ {NoMatchingRule}
\* unmapped = [ans for ans in all_final_answers if ans not in mapped_answers]
unmapped_of(abm_data) ==
    LET u == unique_requests_df(abm_data)
    IN {u[q].fa : q \in DOMAIN u} \ mapped_answers

\* the lines printed for one ABM group: the "Processing" line and, when
\* requests_raised != unique_requests, the mismatch warning
group_output(zbm_code, abm, abm_data, row) ==
    <<[kind |-> "processing", zbm |-> zbm_code, abm |-> abm.code, name |-> abm.name]>>
    \o (IF row.cells["Requests Raised"] # row.cells["Unique Requests"]
        THEN <<[kind |-> "mismatch", zbm |-> zbm_code, abm |-> abm.code, name |-> abm.name,
                unmapped |-> unmapped_of(abm_data)]>>
        ELSE <<>>)

\* mutant: a total that takes the first data row only
column_first(rows, col) == IF rows = <<>> THEN 0 ELSE Head(rows).cells[col]
\* summary_df[col_name].sum() for every numeric column
RECURSIVE column_sum(_, _)
column_sum(rows, col) ==
    IF rows = <<>> THEN 0 ELSE Head(rows).cells[col] + column_sum(Tail(rows), col)
total_row(rows) == [col \in NumericColumns |-> column_sum(rows, col)]

----------------------------------------------------------------------------
(* State *)

\* a run of create_zbm_hierarchical_reports (Claude.py)
VARIABLES
    readable,       \* whether Sample Master Tracker.xlsx can be read
    columns,        \* the column names of the tracker
    tracker,        \* Sample Master Tracker.xlsx, as read
    sheet2,         \* logic.xlsx, Sheet2
    rule_source,    \* what reading logic.xlsx gives: "ok", "unreadable" or "no_final_answer"
    pc,             \* position of the run
    df,             \* the working dataframe
    rules,          \* the rule dict
    zi,             \* index of the ZBM being processed
    ai,             \* index of the next ABM of that ZBM
    summary_data,   \* rows appended for the current ZBM
    log,            \* lines printed for the ABM groups
    reports,        \* report files written, one per ZBM
    diag,           \* the diagnostic printed when the run aborts
    output_dir      \* whether the output directory has been created

\* the normalizers applied to one status spelled two ways
VARIABLES
    nvariant,   \* the script whose normalize is applied
    nraw,       \* a raw status string
    nalt,       \* the same status, formatted differently
    npc,        \* "input", "once" or "twice"
    nout,       \* normalize(nraw)
    nout_alt,   \* normalize(nalt)
    ntwice      \* normalize(normalize(nraw))

\* the rule table of one script, built row by row, and one resolution
VARIABLES
    rvariant,   \* the script
    rsheet,     \* logic.xlsx, Sheet2
    rdict,      \* the rule dict under construction
    rpos,       \* index of the next sheet row
    rpc,        \* "load", "resolve", "done", "null_done" or "raw_done"
    rkey,       \* the table entry whose statuses the request carries
    rstatuses,  \* the Request Status values of the request's rows
    ranswer,    \* the Final Answer the script gives the request
    rwithnull,  \* the same rows plus one row whose Request Status is null
    ranswer_null \* the Final Answer the script gives with that row added

\* the total row of one ZBM's summary table, in the report and in the email
VARIABLES
    tsummary,       \* summary_df: one row of counters per ABM
    texcel_total,   \* the total row written to the spreadsheet, <<>> before
    thtml_total     \* the cells of the total row of the HTML table, <<>> before

\* a run of a script that prepares Outlook drafts
VARIABLES
    mscript,        \* the script
    mclient,        \* whether a mail client could be initialised
    html_files,     \* the HTML files written as fallback
    mwork,          \* the ZBMs in the order the loop takes them
    menv,           \* per ZBM: the attachment lookup and the step that raises, if any
    mi,             \* index of the next ZBM
    outlook,        \* the mail client: the items created and the messages sent
    success_count,
    error_count,
    mlog,           \* lines printed by the loop
    mpc             \* "loop" or "done"

\* the summary table of one ZBM, as one of the scripts builds it
VARIABLES
    sscript,    \* the script
    sinput,     \* the cleaned tracker rows of the ZBM
    sdata,      \* zbm_data: the rows with their Final Answer
    sabms,      \* abms: the frame the ABM loop iterates over
    sk,         \* index of the next row of abms
    srows,      \* summary_data
    stotal,     \* the total row, <<>> before it is written
    spc         \* "resolve", "abm_loop" or "done"

\* the cleaning step of one script on a raw tracker
VARIABLES
    cscript,    \* the script
    craw,       \* the tracker rows as read
    cdf,        \* df after the cleaning statements
    cpc         \* "raw" or "cleaned"

varsRun == <<readable, columns, tracker, sheet2, rule_source, pc, df, rules, zi, ai, summary_data, log, reports,
            diag, output_dir>>
varsNorm == <<nvariant, nraw, nalt, npc, nout, nout_alt, ntwice>>
varsRules == <<rvariant, rsheet, rdict, rpos, rpc, rkey, rstatuses, ranswer, rwithnull, ranswer_null>>
varsTotal == <<tsummary, texcel_total, thtml_total>>
varsMail == <<mscript, mclient, html_files, mwork, menv, mi, outlook, success_count, error_count, mlog, mpc>>
varsSummary == <<sscript, sinput, sdata, sabms, sk, srows, stotal, spc>>
varsClean == <<cscript, craw, cdf, cpc>>
\* the report round trip (create_zbm_hierarchical_reports.py, Othergalf.py)
VARIABLES
    summary_df,     \* the ABM summary table handed to create_zbm_excel_report
    ws,             \* the cells of sheet 'ZBM' that hold a value, by <<row, column>>
    read_result,    \* what read_zbm_summary_file returned
    xpc             \* "table", "written", "read"
varsReport == <<summary_df, ws, read_result, xpc>>
vars == <<varsRun, varsNorm, varsRules, varsTotal, varsMail, varsSummary, varsClean, varsReport>>

othersRun == <<varsNorm, varsRules, varsTotal, varsMail, varsSummary, varsClean, varsReport>>
othersNorm == <<varsRun, varsRules, varsTotal, varsMail, varsSummary, varsClean, varsReport>>
othersRules == <<varsRun, varsNorm, varsTotal, varsMail, varsSummary, varsClean, varsReport>>
othersTotal == <<varsRun, varsNorm, varsRules, varsMail, varsSummary, varsClean, varsReport>>
othersSummary == <<varsRun, varsNorm, varsRules, varsTotal, varsMail, varsClean, varsReport>>
othersClean == <<varsRun, varsNorm, varsRules, varsTotal, varsMail, varsSummary, varsReport>>
othersReport == <<varsRun, varsNorm, varsRules, varsTotal, varsMail, varsSummary, varsClean>>
othersMail == <<varsRun, varsNorm, varsRules, varsTotal, varsSummary, varsClean, varsReport>>

IdleRun ==
    /\ tracker = <<>> /\ sheet2 = <<>> /\ pc = "idle" /\ df = <<>> /\ rules = <<>>
    /\ zi = 1 /\ ai = 1 /\ summary_data = <<>> /\ log = <<>> /\ reports = <<>>
    /\ readable = TRUE /\ columns = {} /\ diag = <<>> /\ output_dir = FALSE
    /\ rule_source = "ok"
IdleNorm ==
    /\ nvariant = "Claude" /\ nraw = <<>> /\ nalt = <<>> /\ npc = "idle"
    /\ nout = <<>> /\ nout_alt = <<>> /\ ntwice = <<>>
IdleRules ==
    /\ rvariant = "Claude" /\ rsheet = <<>> /\ rdict = <<>> /\ rpos = 1 /\ rpc = "idle"
    /\ rkey = <<>> /\ rstatuses = <<>> /\ ranswer = <<>>
    /\ rwithnull = <<>> /\ ranswer_null = <<>>
IdleTotal == tsummary = <<>> /\ texcel_total = <<>> /\ thtml_total = <<>>
IdleMail ==
    /\ mscript = "send_zbm_emails.py" /\ mclient = TRUE /\ html_files = <<>> /\ mwork = <<>> /\ menv = <<>> /\ mi = 1
    /\ outlook = [items |-> <<>>, sent |-> {}] /\ success_count = 0 /\ error_count = 0
    /\ mlog = <<>> /\ mpc = "idle"
IdleSummary ==
    /\ sscript = "Claude.py" /\ sinput = <<>> /\ sdata = <<>> /\ sabms = <<>> /\ sk = 1
    /\ srows = <<>> /\ stotal = <<>> /\ spc = "idle"
IdleClean == cscript = "Claude.py" /\ craw = <<>> /\ cdf = <<>> /\ cpc = "idle"
IdleReport ==
    /\ summary_df = <<>> /\ ws = <<>> /\ read_result = [returned |-> FALSE, none |-> FALSE, data |-> <<>>]
    /\ xpc = "idle"


----------------------------------------------------------------------------
(* The run of create_zbm_hierarchical_reports as a state machine *)

SeqsUpTo(S, n) == UNION {[1..k -> S] : k \in 0..n}

ZN1 == <<"Z", "N", "1">>
ZN2 == <<"Z", "N", "2">>
AB1 == <<"A", "B", "1">>
AB2 == <<"A", "B", "2">>
AB3 == <<"A", "B", "3">>
Asha == <<"A", "s", "h", "a">>
Ravi == <<"R", "a", "v", "i">>
Maya == <<"M", "a", "y", "a">>
R1 == <<"R", "1">>
R2 == <<"R", "2">>

\* the ABM groups, request ids and raw statuses the tracker rows are drawn from
TrackerGroups == {[zbm |-> ZN1, abm |-> AB1, abmName |-> Asha],
                  [zbm |-> ZN1, abm |-> AB2, abmName |-> Ravi],
                  [zbm |-> ZN2, abm |-> AB3, abmName |-> Maya]}
TrackerRequests == {R1, R2}
TrackerStatuses == {S_APIP, S_Delivered}
TrackerRows ==
    {[zbm |-> g.zbm, abm |-> g.abm, abmName |-> g.abmName, req |-> q, status |-> s] :
        g \in TrackerGroups, q \in TrackerRequests, s \in TrackerStatuses}

\* the rule-sheet rows the sheet is drawn from
SheetRows == {[cells |-> <<S_APIP>>, fa |-> S_APIP],
              [cells |-> <<S_Delivered, NaN>>, fa |-> S_Delivered],
              [cells |-> <<S_Delivered, S_APIP>>, fa |-> S_Delivered],
              [cells |-> <<S_Delivered>>, fa |-> S_Return]}

\* the column sets the tracker file is drawn from: every required column and
\* 'ABM HQ'; the same without the optional 'ABM HQ'; one and two required
\* columns missing
AllColumns == SeqToSet(required_columns) \cup {"ABM HQ"}
ColumnSets == {AllColumns,
               AllColumns \ {"ABM HQ"},
               AllColumns \ {"Rto Reason"},
               AllColumns \ {"TBM HQ", "Request Status"}}

\* what opening logic.xlsx and reading Sheet2 gives: the sheet, an exception
\* (file or sheet missing), or a sheet without the column 'Final Answer'
RuleSources == {"ok", "unreadable", "no_final_answer"}
NoAnswerSheet == <<[cells |-> <<S_Delivered>>]>>

InitRun ==
    /\ readable \in BOOLEAN
    /\ columns \in ColumnSets
    /\ tracker \in SeqsUpTo(TrackerRows, MaxRows)
    /\ rule_source \in RuleSources
    /\ sheet2 \in SeqsUpTo(SheetRows, MaxRules) \cup {NoAnswerSheet}
    /\ (rule_source = "no_final_answer") = (sheet2 = NoAnswerSheet)
    /\ rule_source = "unreadable" => sheet2 = <<>>
    /\ readable = FALSE => (columns = AllColumns /\ tracker = <<>> /\ rule_source = "ok" /\ sheet2 = <<>>)
    /\ columns # AllColumns => rule_source = "ok"
    /\ columns \notin {AllColumns, AllColumns \ {"ABM HQ"}} => sheet2 = <<>>
    /\ pc = "read"
    /\ df = <<>>
    /\ rules = <<>>
    /\ zi = 1
    /\ ai = 1
    /\ summary_data = <<>>
    /\ log = <<>>
    /\ reports = <<>>
    /\ diag = <<>>
    /\ output_dir = FALSE

\* lines 21-52: read the tracker, check the required columns, drop incomplete
\* rows, keep the 'ZN' ZBMs; a read error or a missing column ends the run
CleanData ==
    /\ pc = "read"
    /\ IF ~readable
       THEN /\ diag' = [kind |-> "read_error", missing |-> <<>>]
            /\ pc' = "aborted"
            /\ df' = df
       ELSE IF missing_columns(columns) # <<>>
       THEN /\ diag' = [kind |-> "missing_columns", missing |-> missing_columns(columns)]
            /\ pc' = "aborted"
            /\ df' = df
       ELSE /\ diag' = diag
            /\ pc' = "resolve"
            /\ df' = clean(tracker)
    /\ UNCHANGED othersRun
    /\ UNCHANGED <<readable, columns, tracker, sheet2, rule_source, rules, zi, ai, summary_data, log, reports,
                   output_dir>>

\* pd.ExcelFile('logic.xlsx') or read_excel(..., 'Sheet2') raises, or
\* row.drop('Final Answer') raises KeyError on the first row of the sheet
rules_load_raises(source, sheet) ==
    source = "unreadable" \/ (source = "no_final_answer" /\ sheet # <<>>)

\* lines 54-105: build the rule dict, resolve every request id, merge, list the
\* ZBMs and create the output directory; an exception in the try block is
\* printed and the function returns
ComputeFinalStatus ==
    /\ pc = "resolve"
    /\ IF rules_load_raises(rule_source, sheet2)
       THEN /\ diag' = [kind |-> "rules_error", missing |-> <<>>]
            /\ pc' = "aborted"
            /\ UNCHANGED <<rules, df, output_dir>>
       ELSE /\ rules' = build_rules("Claude", sheet2)
            /\ df' = merge_final_answer(df, grouped_of(df, rules'))
            /\ output_dir' = TRUE
            /\ pc' = "zbm_loop"
            /\ diag' = diag
    /\ UNCHANGED othersRun
    /\ UNCHANGED <<readable, columns, tracker, sheet2, rule_source, zi, ai, summary_data, log, reports>>

current_zbm == zbms_of(df)[zi]
current_abms == abms_of(zbm_data_of(df, current_zbm))

\* lines 123-127: the aggregation names the column 'ABM HQ' whether or not the
\* tracker has it; without the column groupby(...).agg raises KeyError, which
\* nothing in the ZBM loop catches
AggregationRaises ==
    /\ pc = "zbm_loop"
    /\ zi <= Len(zbms_of(df))
    /\ ai = 1
    /\ "ABM HQ" \notin columns
    /\ pc' = "crashed"
    /\ UNCHANGED othersRun
    /\ UNCHANGED <<readable, columns, tracker, sheet2, rule_source, df, rules, zi, ai, summary_data, log,
                   reports, diag, output_dir>>

\* lines 135-270: one iteration of the ABM loop
ProcessABM ==
    /\ pc = "zbm_loop"
    /\ zi <= Len(zbms_of(df))
    /\ "ABM HQ" \in columns
    /\ ai <= Len(current_abms)
    /\ LET abm == current_abms[ai]
           abm_data == abm_data_of(zbm_data_of(df, current_zbm), abm)
           row == abm_summary(abm, abm_data)
       IN /\ log' = log \o group_output(current_zbm, abm, abm_data, row)
          /\ summary_data' = Append(summary_data, row)
    /\ ai' = ai + 1
    /\ UNCHANGED othersRun
    /\ UNCHANGED <<readable, columns, tracker, sheet2, rule_source, pc, df, rules, zi, reports, diag, output_dir>>

\* lines 272-276 and create_zbm_excel_report: data rows and the total row are
\* written and saved; any exception is caught and the ZBM loop goes on
CreateExcelReport ==
    /\ pc = "zbm_loop"
    /\ zi <= Len(zbms_of(df))
    /\ "ABM HQ" \in columns
    /\ ai > Len(current_abms)
    /\ \E saved \in BOOLEAN :
          /\ reports' = IF saved
                        THEN Append(reports, [zbm |-> current_zbm, rows |-> summary_data,
                                              total |-> total_row(summary_data)])
                        ELSE reports
          /\ log' = IF saved THEN log
                    ELSE Append(log, [kind |-> "report_error", zbm |-> current_zbm])
    /\ zi' = zi + 1
    /\ ai' = 1
    /\ summary_data' = <<>>
    /\ UNCHANGED othersRun
    /\ UNCHANGED <<readable, columns, tracker, sheet2, rule_source, pc, df, rules, diag, output_dir>>

\* line 278: the ZBM loop is over
Finish ==
    /\ pc = "zbm_loop"
    /\ zi > Len(zbms_of(df))
    /\ pc' = "done"
    /\ UNCHANGED othersRun
    /\ UNCHANGED <<readable, columns, tracker, sheet2, rule_source, df, rules, zi, ai, summary_data, log, reports,
                   diag, output_dir>>

NextRun ==
    CleanData \/ ComputeFinalStatus \/ AggregationRaises \/ ProcessABM \/ CreateExcelReport
    \/ Finish

----------------------------------------------------------------------------
(* The status normalizers applied to arbitrary short strings *)

NormAlphabet == {" ", "a", "B"}
NormStrings == UNION {[1..k -> NormAlphabet] : k \in 0..MaxLen}

\* str.swapcase() on one character
swapcase_char(c) ==
    IF c \in UpperCase THEN CodePoints[Code(c) + 26]
    ELSE IF c = " " THEN c
    ELSE CodePoints[Code(c) - 26]

InsertAt(s, i, c) == SubSeq(s, 1, i - 1) \o <<c>> \o SubSeq(s, i, Len(s))
RemoveAt(s, i) == SubSeq(s, 1, i - 1) \o SubSeq(s, i + 1, Len(s))

\* position i of s is a space at an end of s or next to another space
RedundantSpace(s, i) ==
    IF s[i] # " " THEN FALSE
    ELSE IF i = 1 \/ i = Len(s) THEN TRUE
    ELSE s[i - 1] = " " \/ s[i + 1] = " "

\* a space inserted before position i of s lands at an end or next to a space
PadPosition(s, i) ==
    IF i = 1 \/ i = Len(s) + 1 THEN TRUE
    ELSE s[i] = " " \/ s[i - 1] = " "

InitNorm ==
    /\ nvariant \in {"Claude", "corrected"}
    /\ nraw \in NormStrings
    /\ nalt = nraw
    /\ npc = "input"
    /\ nout = <<>>
    /\ nout_alt = <<>>
    /\ ntwice = <<>>

\* the source data spells the status in another letter case
ToggleCase ==
    /\ npc = "input"
    /\ \E i \in DOMAIN nalt :
          /\ nalt[i] # " "
          /\ nalt' = [nalt EXCEPT ![i] = swapcase_char(nalt[i])]
    /\ UNCHANGED othersNorm /\ UNCHANGED <<nvariant, nraw, npc, nout, nout_alt, ntwice>>

\* the source data pads the status: a space more at an end or in a run of spaces
PadSpace ==
    /\ npc = "input"
    /\ Len(nalt) < MaxLen
    /\ \E i \in 1..(Len(nalt) + 1) :
          /\ PadPosition(nalt, i)
          /\ nalt' = InsertAt(nalt, i, " ")
    /\ UNCHANGED othersNorm /\ UNCHANGED <<nvariant, nraw, npc, nout, nout_alt, ntwice>>

\* the source data drops a space at an end or from a run of spaces
TrimSpace ==
    /\ npc = "input"
    /\ \E i \in DOMAIN nalt :
          /\ RedundantSpace(nalt, i)
          /\ nalt' = RemoveAt(nalt, i)
    /\ UNCHANGED othersNorm /\ UNCHANGED <<nvariant, nraw, npc, nout, nout_alt, ntwice>>

\* normalize(s) for the rule cell and for the tracker status
NormalizeOnce ==
    /\ npc = "input"
    /\ nout' = Normalize(nvariant, nraw)
    /\ nout_alt' = Normalize(nvariant, nalt)
    /\ npc' = "once"
    /\ UNCHANGED othersNorm /\ UNCHANGED <<nvariant, nraw, nalt, ntwice>>

\* normalize applied to an already normalized status
NormalizeAgain ==
    /\ npc = "once"
    /\ ntwice' = Normalize(nvariant, nout)
    /\ npc' = "twice"
    /\ UNCHANGED othersNorm /\ UNCHANGED <<nvariant, nraw, nalt, nout, nout_alt>>

NextNorm == ToggleCase \/ PadSpace \/ TrimSpace \/ NormalizeOnce \/ NormalizeAgain

----------------------------------------------------------------------------
(* Rule-table construction, row by row, and the resolution of one request *)

\* the rule-sheet rows the sheet is drawn from
RuleSheetRows == {[cells |-> <<S_Delivered, NaN>>, fa |-> S_Delivered],
                  [cells |-> <<S_APIP, S_Delivered>>, fa |-> S_Delivered],
                  [cells |-> <<S_Delivered, S_APIP>>, fa |-> S_APIP],
                  [cells |-> <<S_DispatchPending, S_Delivered>>, fa |-> S_DispatchPending],
                  [cells |-> <<S_RequestRaised, S_Return>>, fa |-> S_RequestRaised],
                  [cells |-> <<S_NotPermitted>>, fa |-> S_NotPermitted]}

\* the rows of a request that carries exactly the statuses of key, in any
\* order, with up to MaxRepeat repeated rows
RowsCarrying(key) ==
    {lst \in UNION {[1..n -> SeqToSet(key)] : n \in Len(key)..(Len(key) + MaxRepeat)} :
        SeqToSet(lst) = SeqToSet(key)}

InitRules ==
    /\ rvariant \in Variants
    /\ rsheet \in SeqsUpTo(RuleSheetRows, MaxSheetRows)
    /\ rdict = <<>>
    /\ rpos = 1
    /\ rpc = "load"
    /\ rkey = <<>>
    /\ rstatuses = <<>>
    /\ ranswer = <<>>
    /\ rwithnull = <<>>
    /\ ranswer_null = <<>>

\* one iteration of "for _, row in sheet2.iterrows()": rules[statuses] = row['Final Answer']
LoadRuleRow ==
    /\ rpc = "load"
    /\ rpos <= Len(rsheet)
    /\ rdict' = load_rule_row(rvariant, rdict, rsheet[rpos])
    /\ rpos' = rpos + 1
    /\ UNCHANGED othersRules /\ UNCHANGED <<rvariant, rsheet, rpc, rkey, rstatuses, ranswer, rwithnull, ranswer_null>>

\* rules.update(additional_rules), after the last sheet row
UpdateAdditional ==
    /\ rpc = "load"
    /\ rpos > Len(rsheet)
    /\ rdict' = dict_update(rdict, additional_rules(rvariant))
    /\ rpc' = "resolve"
    /\ UNCHANGED othersRules /\ UNCHANGED <<rvariant, rsheet, rpos, rkey, rstatuses, ranswer, rwithnull, ranswer_null>>

\* the Final Answer of a request whose rows carry the statuses of a table entry
ResolveRequest ==
    /\ rpc = "resolve"
    /\ \E key \in DOMAIN rdict : \E lst \in RowsCarrying(key) :
          /\ rkey' = key
          /\ rstatuses' = lst
          /\ ranswer' = resolve(rvariant, rdict, lst)
    /\ rpc' = "done"
    /\ UNCHANGED othersRules /\ UNCHANGED <<rvariant, rsheet, rdict, rpos, rwithnull, ranswer_null>>

\* the same request with one more tracker row whose Request Status is null
ResolveWithNull ==
    /\ rpc = "done"
    /\ \E p \in {1, Len(rstatuses) + 1} :
          /\ rwithnull' = InsertAt(rstatuses, p, NaN)
          /\ ranswer_null' = resolve(rvariant, rdict, rwithnull')
    /\ rpc' = "null_done"
    /\ UNCHANGED othersRules /\ UNCHANGED <<rvariant, rsheet, rdict, rpos, rkey, rstatuses, ranswer>>

\* the raw Request Status cells of a request's rows, null cells included
RawStatuses == {S_Delivered, S_RequestRaised, NaN}
RawStatusLists == SeqsUpTo(RawStatuses, MaxRepeat + 2) \ {<<>>}

\* the Final Answer of a request with arbitrary raw statuses
ResolveRawRequest ==
    /\ rpc = "resolve"
    /\ \E lst \in RawStatusLists :
          /\ rstatuses' = lst
          /\ ranswer' = resolve(rvariant, rdict, lst)
    /\ rpc' = "raw_done"
    /\ UNCHANGED othersRules
    /\ UNCHANGED <<rvariant, rsheet, rdict, rpos, rkey, rwithnull, ranswer_null>>

NextRules ==
    LoadRuleRow \/ UpdateAdditional \/ ResolveRequest \/ ResolveWithNull \/ ResolveRawRequest
----------------------------------------------------------------------------
(* The total row of a ZBM summary: spreadsheet report and HTML email table *)

\* f"{value}" of a non-negative integer: its decimal digits
RECURSIVE format_int(_)
format_int(n) ==
    IF n < 10 THEN <<CodePoints[Code("0") + n]>>
    ELSE format_int(n \div 10) \o <<CodePoints[Code("0") + (n % 10)]>>

\* a summary row with the given leaf counters; the derived cells follow the
\* formulas of the aggregation
summary_row(A, B, D, E, G, H, I) ==
    LET F == requests_dispatched_of(G, H, I)
        C == sent_to_hub_of(D, E, F)
    IN [cells |->
            ("Unique Requests" :> requests_raised_of(A, B, C)) @@
            ("Requests Raised" :> requests_raised_of(A, B, C)) @@
            ("Request Cancelled Out of Stock" :> A) @@
            ("Action Pending at HO" :> B) @@
            ("Sent to HUB" :> C) @@
            ("Pending for Invoicing" :> D) @@
            ("Pending for Dispatch" :> E) @@
            ("Requests Dispatched" :> F) @@
            ("Delivered" :> G) @@
            ("Dispatched In Transit" :> H) @@
            ("RTO" :> I)]

\* the summary rows a ZBM table is drawn from
SummaryRows ==
    {summary_row(A, 0, D, 0, G, 0, I) : A \in 0..1, D \in 0..1, G \in 0..MaxCount, I \in 0..1}

\* a ZBM has at least one ABM row
InitTotal ==
    /\ tsummary \in SeqsUpTo(SummaryRows, MaxSummaryRows) \ {<<>>}
    /\ texcel_total = <<>>
    /\ thtml_total = <<>>

\* create_zbm_excel_report: total_value = summary_df[col_name].sum() per column
WriteExcelTotals ==
    /\ texcel_total = <<>>
    /\ texcel_total' = total_row(tsummary)
    /\ UNCHANGED othersTotal /\ UNCHANGED <<tsummary, thtml_total>>

\* create_summary_table_html: <td>{summary_df.get(col, pd.Series()).sum()}</td>
RenderHtmlTotals ==
    /\ thtml_total = <<>>
    /\ thtml_total' = [col \in NumericColumns |-> format_int(column_sum(tsummary, col))]
    /\ UNCHANGED othersTotal /\ UNCHANGED <<tsummary, texcel_total>>

NextTotal == WriteExcelTotals \/ RenderHtmlTotals

----------------------------------------------------------------------------
(* The scripts that prepare Outlook drafts: send_zbm_emails.py, the draft  *)
(* generator over pre-generated summary files (Othergalf.py) and           *)
(* create_zbm_outlook_emails.py                                            *)

MailScripts == {"send_zbm_emails.py", "Othergalf.py", "create_zbm_outlook_emails.py"}

ZN3 == <<"Z", "N", "3">>
\* the ZBMs of the tracker with the ABMs under each
MailDirectory == <<[zbm |-> ZN1, abms |-> {AB1, AB2}],
                   [zbm |-> ZN2, abms |-> {AB3}],
                   [zbm |-> ZN3, abms |-> {AB1}]>>
MailZbms == {MailDirectory[i].zbm : i \in 1..MaxZbms}
abms_under(zbm_code) ==
    MailDirectory[CHOOSE i \in DOMAIN MailDirectory : MailDirectory[i].zbm = zbm_code].abms
email_of(code) == code \o <<"@", "x">>

\* what the file lookup gives for a ZBM, and the step of its iteration that raises
AttachmentStates == {"found", "not_found", "path_gone"}
\* "skip" is an iteration left by continue after a warning: a ZBM without
\* email address (create_zbm_outlook_emails.py), a file name without 'ZN'
\* code, a code unknown to the tracker or an empty summary (Othergalf.py)
Faults == {"none", "aggregate", "create", "attach", "display", "skip"}

\* glob.glob and os.walk return the entries of a directory in arbitrary order
Orderings(S) == {w \in [1..Cardinality(S) -> S] : SeqToSet(w) = S}

\* mail.Subject, templated with the current date
subject_line == [text |-> "Sample Direct Dispatch to Doctors - Request Status as of",
                 date |-> "current_date"]

\* the rows of the summary table of a ZBM, one per ABM: groupby sorts its keys
\* (send_zbm_emails.py), sort_values('ABM Terr Code') (create_zbm_outlook_emails.py),
\* the data rows of the summary file, written by the report generator in
\* ascending ABM order (Othergalf.py)
summary_rows_of(zbm_code) == sorted_set(abms_under(zbm_code))
email_content_of(zbm_code) == [greeting |-> zbm_code, rows |-> summary_rows_of(zbm_code)]
\* abms['ABM EMAIL_ID'].dropna().unique().tolist()
cc_emails_of(script, zbm_code) ==
    IF script = "create_zbm_outlook_emails.py" THEN <<>>
    ELSE [i \in DOMAIN summary_rows_of(zbm_code) |-> email_of(summary_rows_of(zbm_code)[i])]

\* outlook.CreateItem(0) followed by the assignments of To, CC, Subject, HTMLBody
new_mail(script, zbm_code) ==
    [zbm |-> zbm_code, To |-> email_of(zbm_code), CC |-> cc_emails_of(script, zbm_code),
     Subject |-> subject_line, HTMLBody |-> email_content_of(zbm_code),
     Attachments |-> <<>>, displayed |-> FALSE]

\* mutant: the item is sent instead of displayed
mail_Send(client, mail) ==
    [items |-> client.items, sent |-> client.sent \cup {mail}]
\* mail.Display(): the item is shown for review
mail_Display(client, mail) ==
    [items |-> Append(client.items, [mail EXCEPT !.displayed = TRUE]), sent |-> client.sent]

\* mutant: a missing attachment file makes the draft fail
display_single_email_strict(script, client, zbm_code, env) ==
    IF env.fault = "create" \/ env.attachment # "found" THEN [raised |-> TRUE, client |-> client]
    ELSE [raised |-> FALSE,
          client |-> mail_Display(client, [new_mail(script, zbm_code)
                                             EXCEPT !.Attachments = <<zbm_code>>])]
\* display_single_email: create the item, fill it, attach the file when the
\* lookup found one and the path exists, display; an exception of the mail
\* client leaves the function at the call that raised it
display_single_email(script, client, zbm_code, env) ==
    LET mail == new_mail(script, zbm_code)
        attach == script # "create_zbm_outlook_emails.py" /\ env.attachment = "found"
        filled == IF attach THEN [mail EXCEPT !.Attachments = <<zbm_code>>] ELSE mail
        abandoned == [items |-> Append(client.items, mail), sent |-> client.sent]
    IN IF env.fault = "create" THEN [raised |-> TRUE, client |-> client]
       ELSE IF attach /\ env.fault = "attach" THEN [raised |-> TRUE, client |-> abandoned]
       ELSE IF env.fault = "display"
       THEN [raised |-> TRUE, client |-> [abandoned EXCEPT !.items = Append(client.items, filled)]]
       ELSE [raised |-> FALSE, client |-> mail_Display(client, filled)]

\* create_single_html_email: the file written for a ZBM when no mail client
\* could be initialised
create_single_html_email(zbm_code, zbm_email, cc_emails, email_content) ==
    [zbm |-> zbm_code, To |-> zbm_email, CC |-> cc_emails, Subject |-> subject_line,
     HTMLBody |-> email_content]

InitMail ==
    /\ mscript \in MailScripts
    /\ mclient \in BOOLEAN
    /\ mwork \in Orderings(MailZbms)
    /\ mscript # "Othergalf.py" => mwork = sorted_set(MailZbms)
    /\ menv \in [MailZbms -> [attachment : AttachmentStates, fault : Faults]]
    /\ mscript = "send_zbm_emails.py" => \A z \in MailZbms : menv[z].fault # "skip"
    /\ ~mclient => \A z \in MailZbms : /\ menv[z].attachment = "found"
                                        /\ menv[z].fault \in {"none", "aggregate", "skip"}
    /\ html_files = <<>>
    /\ mi = 1
    /\ outlook = [items |-> <<>>, sent |-> {}]
    /\ success_count = 0
    /\ error_count = 0
    /\ mlog = <<>>
    /\ mpc = "loop"

\* the body of one loop iteration, all of it inside try/except: the summary
\* is built, the draft displayed and the success counted, or the exception is
\* logged and counted and the loop continues
\* an iteration whose continue statements leave the counters alone
loop_iteration_continue_uncounted(script, client, zbm_code, env) ==
    LET r == display_single_email(script, client, zbm_code, env)
        early == env.fault \in {"aggregate", "skip"}
        failed == (env.fault = "aggregate") \/ (env.fault # "skip" /\ r.raised)
    IN [client |-> IF early THEN client ELSE r.client,
        succeeded |-> IF failed \/ early THEN 0 ELSE 1,
        failed |-> IF failed THEN 1 ELSE 0,
        lines |-> <<[kind |-> "processing", zbm |-> zbm_code],
                    [kind |-> IF failed \/ early THEN "error" ELSE "success", zbm |-> zbm_code]>>]

loop_iteration(script, client, zbm_code, env) ==
    LET r == display_single_email(script, client, zbm_code, env)
        early == env.fault \in {"aggregate", "skip"}
        failed == early \/ r.raised
    IN [client |-> IF early THEN client ELSE r.client,
        succeeded |-> IF failed THEN 0 ELSE 1,
        failed |-> IF failed THEN 1 ELSE 0,
        lines |-> <<[kind |-> "processing", zbm |-> zbm_code],
                    [kind |-> IF failed THEN "error" ELSE "success", zbm |-> zbm_code]>>]

\* the body of one iteration of the fallback loops: the file is written, or
\* the iteration is left by continue
html_iteration(script, zbm_code, env) ==
    IF env.fault \in {"aggregate", "skip"} THEN <<>>
    ELSE <<create_single_html_email(zbm_code, email_of(zbm_code),
                                    IF script = "Othergalf.py" THEN <<>>
                                    ELSE cc_emails_of(script, zbm_code),
                                    email_content_of(zbm_code))>>

\* send_zbm_emails.py, lines 163-199: for _, zbm_row in zbms.iterrows()
DisplayZbmEmail ==
    /\ mscript = "send_zbm_emails.py"
    /\ mpc = "loop"
    /\ mclient
    /\ mi <= Len(mwork)
    /\ LET it == loop_iteration(mscript, outlook, mwork[mi], menv[mwork[mi]])
       IN /\ outlook' = it.client
          /\ success_count' = success_count + it.succeeded
          /\ error_count' = error_count + it.failed
          /\ mlog' = mlog \o it.lines
    /\ mi' = mi + 1
    /\ UNCHANGED othersMail /\ UNCHANGED <<mscript, mclient, mwork, menv, mpc, html_files>>

\* Othergalf.py, lines 284-345: for summary_file in summary_files
DisplaySummaryFileEmail ==
    /\ mscript = "Othergalf.py"
    /\ mpc = "loop"
    /\ mclient
    /\ mi <= Len(mwork)
    /\ LET it == loop_iteration(mscript, outlook, mwork[mi], menv[mwork[mi]])
       IN /\ outlook' = it.client
          /\ success_count' = success_count + it.succeeded
          /\ error_count' = error_count + it.failed
          /\ mlog' = mlog \o it.lines
    /\ mi' = mi + 1
    /\ UNCHANGED othersMail /\ UNCHANGED <<mscript, mclient, mwork, menv, mpc, html_files>>

\* create_zbm_outlook_emails.py, lines 136-367: successful_emails and
\* failed_emails are the two counters
CreateOutlookDraft ==
    /\ mscript = "create_zbm_outlook_emails.py"
    /\ mpc = "loop"
    /\ mclient
    /\ mi <= Len(mwork)
    /\ LET it == loop_iteration(mscript, outlook, mwork[mi], menv[mwork[mi]])
       IN /\ outlook' = it.client
          /\ success_count' = success_count + it.succeeded
          /\ error_count' = error_count + it.failed
          /\ mlog' = mlog \o it.lines
    /\ mi' = mi + 1
    /\ UNCHANGED othersMail /\ UNCHANGED <<mscript, mclient, mwork, menv, mpc, html_files>>

\* send_zbm_emails.py, create_html_email_files (lines 441-476): without mail
\* client one HTML file per ZBM
CreateHtmlEmailFile ==
    /\ mscript = "send_zbm_emails.py"
    /\ mpc = "loop"
    /\ ~mclient
    /\ mi <= Len(mwork)
    /\ html_files' = html_files \o html_iteration(mscript, mwork[mi], menv[mwork[mi]])
    /\ success_count' = success_count + Len(html_iteration(mscript, mwork[mi], menv[mwork[mi]]))
    /\ mi' = mi + 1
    /\ UNCHANGED othersMail
    /\ UNCHANGED <<mscript, mclient, mwork, menv, outlook, error_count, mlog, mpc>>

\* Othergalf.py, create_html_email_files_from_summaries (lines 552-589)
CreateHtmlEmailFromSummary ==
    /\ mscript = "Othergalf.py"
    /\ mpc = "loop"
    /\ ~mclient
    /\ mi <= Len(mwork)
    /\ html_files' = html_files \o html_iteration(mscript, mwork[mi], menv[mwork[mi]])
    /\ success_count' = success_count + Len(html_iteration(mscript, mwork[mi], menv[mwork[mi]]))
    /\ mi' = mi + 1
    /\ UNCHANGED othersMail
    /\ UNCHANGED <<mscript, mclient, mwork, menv, outlook, error_count, mlog, mpc>>

\* create_zbm_outlook_emails.py, lines 16-22: without mail client the script
\* returns before it reads the tracker
OutlookUnavailable ==
    /\ mscript = "create_zbm_outlook_emails.py"
    /\ mpc = "loop"
    /\ ~mclient
    /\ mpc' = "aborted"
    /\ UNCHANGED othersMail
    /\ UNCHANGED <<mscript, mclient, mwork, menv, mi, outlook, success_count, error_count, mlog,
                   html_files>>

\* the loop is over: the counts are printed
FinishMail ==
    /\ mpc = "loop"
    /\ mclient \/ mscript # "create_zbm_outlook_emails.py"
    /\ mi > Len(mwork)
    /\ mpc' = "done"
    /\ UNCHANGED othersMail
    /\ UNCHANGED <<mscript, mclient, mwork, menv, mi, outlook, success_count, error_count, mlog,
                   html_files>>

NextMail ==
    DisplayZbmEmail \/ DisplaySummaryFileEmail \/ CreateOutlookDraft
    \/ CreateHtmlEmailFile \/ CreateHtmlEmailFromSummary \/ OutlookUnavailable \/ FinishMail

----------------------------------------------------------------------------
(* The summary table of one ZBM as each script builds it: the resolved     *)
(* rows, the frame of ABMs, the rows selected for each ABM and the leaf    *)
(* counters                                                                *)

SummaryScripts == {"Claude.py", "send_zbm_emails.py", "create_corrected_zbm_reports.py",
                   "create_zbm_outlook_emails.py", "hierarchical_zbm_summary.py"}
GroupsByCodeOnly == {"create_corrected_zbm_reports.py", "create_zbm_outlook_emails.py",
                     "hierarchical_zbm_summary.py"}

E1 == <<"e", "1">>
Reason == <<"I", "n", "c", "o", "m", "p", "l", "e", "t", "e", " ", "A", "d", "d", "r", "e", "s", "s">>
\* 'Dispatch  Pending', with the two spaces of the literal in create_summary_data
S_DispatchPending2 == <<"D", "i", "s", "p", "a", "t", "c", "h", " ", " ", "P", "e", "n", "d", "i", "n", "g">>

\* the rows of one ZBM are drawn from: an ABM code with two names, an ABM
\* without email address; two request ids; three raw statuses, a returned
\* parcel with and without Rto Reason
ZbmIdentities == {[abm |-> AB1, abmName |-> Asha, abmEmail |-> E1],
                  [abm |-> AB1, abmName |-> Maya, abmEmail |-> E1],
                  [abm |-> AB2, abmName |-> Ravi, abmEmail |-> NaN]}
StatusAndReason == {[status |-> S_APIP, rto |-> NaN],
                    [status |-> S_Return, rto |-> NaN],
                    [status |-> S_Return, rto |-> Reason],
                    [status |-> S_NotPermitted, rto |-> NaN]}
ZbmRows ==
    {[abm |-> g.abm, abmName |-> g.abmName, abmEmail |-> g.abmEmail, req |-> q,
      status |-> s.status, rto |-> s.rto] :
        g \in ZbmIdentities, q \in TrackerRequests, s \in StatusAndReason}
\* Sheet2 of logic.xlsx in these runs
SummarySheet == <<[cells |-> <<S_APIP>>, fa |-> S_APIP],
                  [cells |-> <<S_NotPermitted>>, fa |-> S_NotPermitted]>>

\* the rule table of each script that resolves per request id
variant_of(script) ==
    IF script = "Claude.py" THEN "Claude"
    ELSE IF script = "hierarchical_zbm_summary.py" THEN "hierarchical"
    ELSE "corrected"

\* the Final Answer (Final Status in send_zbm_emails.py) of row i: the rule
\* lookup per request id, or the raw status where the mapping has no entry
final_answer_of(script, rows, i) ==
    IF script = "send_zbm_emails.py" THEN rows[i].status
    ELSE IF script \in {"Claude.py", "hierarchical_zbm_summary.py"}
    THEN get_final_answer(variant_of(script), build_rules(variant_of(script), SummarySheet),
                          status_list_of(rows, rows[i].req))
    ELSE compute_final_answer(build_rules("corrected", SummarySheet), column_of(rows, rows[i].req))
with_final_answer(script, rows) ==
    [i \in DOMAIN rows |->
        [abm |-> rows[i].abm, abmName |-> rows[i].abmName, abmEmail |-> rows[i].abmEmail,
         req |-> rows[i].req, status |-> rows[i].status, rto |-> rows[i].rto,
         fa |-> final_answer_of(script, rows, i),
         hasD |-> IF script = "Claude.py"
                  THEN has_action_pending(status_list_of(rows, rows[i].req)) ELSE NaN]]

\* 'first' of a column within a group: the first non-null value
first_valid(values) == IF dropna(values) = <<>> THEN NaN ELSE Head(dropna(values))

\* groupby(['ABM Terr Code', 'ABM Name']).agg({'ABM EMAIL_ID': 'first', ...})
abms_by_code_and_name(zbm_data) ==
    LET keys == abms_of(zbm_data)
    IN [j \in DOMAIN keys |->
          [code |-> keys[j].code, name |-> keys[j].name,
           email |-> first_valid([i \in DOMAIN abm_data_of(zbm_data, keys[j]) |->
                                     abm_data_of(zbm_data, keys[j])[i].abmEmail])]]

\* groupby(['ABM Terr Code', 'ABM Name', 'ABM EMAIL_ID']): rows with a null
\* key are left out of every group; the groups come in ascending key order
TripleLess(p, q) ==
    \/ AbmLess(p, q)
    \/ (p.code = q.code /\ p.name = q.name /\ StrLess(p.email, q.email))
RECURSIVE sorted_triples(_)
sorted_triples(S) ==
    IF S = {} THEN <<>>
    ELSE LET m == CHOOSE x \in S : \A y \in S \ {x} : TripleLess(x, y)
         IN <<m>> \o sorted_triples(S \ {m})
abms_by_code_name_email(zbm_data) ==
    sorted_triples({[code |-> zbm_data[i].abm, name |-> zbm_data[i].abmName,
                     email |-> zbm_data[i].abmEmail] :
                        i \in {k \in DOMAIN zbm_data : zbm_data[k].abmEmail # NaN}})

\* zbm_data[['ABM Terr Code', 'ABM Name', 'ABM EMAIL_ID']].drop_duplicates()
\* .sort_values('ABM Terr Code'): first occurrences, then ordered by code
RECURSIVE drop_duplicates(_)
drop_duplicates(s) ==
    IF s = <<>> THEN <<>>
    ELSE <<Head(s)>> \o drop_duplicates(SelectSeq(Tail(s), LAMBDA x : x # Head(s)))
RECURSIVE sort_values_code(_)
sort_values_code(s) ==
    IF s = <<>> THEN <<>>
    ELSE LET i == CHOOSE k \in DOMAIN s :
                    /\ \A j \in DOMAIN s : ~StrLess(s[j].code, s[k].code)
                    /\ \A j \in 1..(k - 1) : StrLess(s[k].code, s[j].code)
         IN <<s[i]>> \o sort_values_code(SubSeq(s, 1, i - 1) \o SubSeq(s, i + 1, Len(s)))
abms_drop_duplicates(zbm_data) ==
    sort_values_code(drop_duplicates(
        [i \in DOMAIN zbm_data |-> [code |-> zbm_data[i].abm, name |-> zbm_data[i].abmName,
                                    email |-> zbm_data[i].abmEmail]]))

\* abms, as each script computes it
abms_frame(script, zbm_data) ==
    IF script = "Claude.py" THEN abms_by_code_and_name(zbm_data)
    ELSE IF script = "send_zbm_emails.py" THEN abms_by_code_name_email(zbm_data)
    ELSE abms_drop_duplicates(zbm_data)

\* abm_data: the rows with the ABM's code and name, or with its code only
abm_data_by_code(zbm_data, abm) == SelectSeq(zbm_data, LAMBDA r : r.abm = abm.code)
abm_rows(script, zbm_data, abm) ==
    IF script \in GroupsByCodeOnly THEN abm_data_by_code(zbm_data, abm)
    ELSE abm_data_of(zbm_data, abm)

\* abm_data[abm_data[column].isin(values)]['Assigned Request Ids'].nunique():
\* the ids it counts
by_final_answer(abm_data, answers) ==
    request_ids(SelectSeq(abm_data, LAMBDA r : r.fa \in answers))
by_request_status(abm_data, statuses) ==
    request_ids(SelectSeq(abm_data, LAMBDA r : r.status \in statuses))
with_rto_reason(abm_data) == request_ids(SelectSeq(abm_data, LAMBDA r : r.rto # NaN))

\* the request ids behind each leaf counter of an ABM row
script_leaf_members(script, abm_data) ==
    IF script = "Claude.py" THEN leaf_members(unique_requests_df(abm_data))
    ELSE IF script = "send_zbm_emails.py" THEN
        ("Request Cancelled Out of Stock" :>
            by_request_status(abm_data, {S_OutOfStock, S_OnHold, S_NotPermitted})) @@
        ("Action Pending at HO" :> by_request_status(abm_data, {S_RequestRaised})) @@
        ("Pending for Invoicing" :> by_request_status(abm_data, {S_APIP})) @@
        ("Pending for Dispatch" :> by_request_status(abm_data, {S_DispatchPending2})) @@
        ("Delivered" :> by_request_status(abm_data, {S_Delivered})) @@
        ("Dispatched In Transit" :> by_request_status(abm_data, {S_InTransit})) @@
        ("RTO" :> by_request_status(abm_data, {S_RTO}))
    ELSE
        ("Request Cancelled Out of Stock" :>
            by_final_answer(abm_data, {S_OutOfStock, S_OnHold, S_NotPermitted})) @@
        ("Action Pending at HO" :> by_final_answer(abm_data, {S_APIP})) @@
        ("Pending for Invoicing" :> {}) @@
        ("Pending for Dispatch" :> by_final_answer(abm_data, {S_DispatchPending})) @@
        ("Delivered" :> by_final_answer(abm_data, {S_Delivered})) @@
        ("Dispatched In Transit" :> by_final_answer(abm_data, {S_InTransit})) @@
        ("RTO" :> IF script = "hierarchical_zbm_summary.py"
                  THEN by_final_answer(abm_data, {S_RTO}) ELSE with_rto_reason(abm_data))

\* the row appended to summary_data for one ABM
script_summary_row(script, abm, abm_data) ==
    IF script = "Claude.py"
    THEN abm_summary([code |-> abm.code, name |-> abm.name], abm_data)
    ELSE LET n == [col \in LeafColumns |-> Cardinality(script_leaf_members(script, abm_data)[col])]
             F == requests_dispatched_of(n["Delivered"], n["Dispatched In Transit"], n["RTO"])
             C == sent_to_hub_of(n["Pending for Invoicing"], n["Pending for Dispatch"], F)
         IN [abm_code |-> abm.code, abm_name |-> abm.name,
             cells |-> n @@
                ("Unique Requests" :> Cardinality(request_ids(abm_data))) @@
                ("Requests Raised" :>
                    requests_raised_of(n["Request Cancelled Out of Stock"],
                                       n["Action Pending at HO"], C)) @@
                ("Sent to HUB" :> C) @@
                ("Requests Dispatched" :> F)]

InitSummary ==
    /\ sscript \in SummaryScripts
    /\ sinput \in SeqsUpTo(ZbmRows, MaxZbmRows)
    /\ sdata = <<>>
    /\ sabms = <<>>
    /\ sk = 1
    /\ srows = <<>>
    /\ stotal = <<>>
    /\ spc = "resolve"

\* the Final Answer is merged into the rows and the ABMs of the ZBM are listed
ResolveAndGroup ==
    /\ spc = "resolve"
    /\ sdata' = with_final_answer(sscript, sinput)
    /\ sabms' = abms_frame(sscript, sdata')
    /\ spc' = "abm_loop"
    /\ UNCHANGED othersSummary /\ UNCHANGED <<sscript, sinput, sk, srows, stotal>>

\* for _, abm_row in abms.iterrows(): one summary row
SummarizeAbm ==
    /\ spc = "abm_loop"
    /\ sk <= Len(sabms)
    /\ srows' = Append(srows, script_summary_row(sscript, sabms[sk],
                                                 abm_rows(sscript, sdata, sabms[sk])))
    /\ sk' = sk + 1
    /\ UNCHANGED othersSummary /\ UNCHANGED <<sscript, sinput, sdata, sabms, stotal, spc>>

\* the total row: the sum of every numeric column over summary_data; the
\* flat summary of hierarchical_zbm_summary.py has a ZBM-level row instead,
\* counted over all rows of the ZBM
WriteTotals ==
    /\ spc = "abm_loop"
    /\ sk > Len(sabms)
    /\ stotal' = IF sscript = "hierarchical_zbm_summary.py"
                 THEN script_summary_row(sscript, [code |-> <<>>, name |-> <<>>], sdata).cells
                 ELSE total_row(srows)
    /\ spc' = "done"
    /\ UNCHANGED othersSummary /\ UNCHANGED <<sscript, sinput, sdata, sabms, sk, srows>>

NextSummary == ResolveAndGroup \/ SummarizeAbm \/ WriteTotals

----------------------------------------------------------------------------
(* The cleaning step of the scripts that aggregate, on rows whose key      *)
(* fields may be null, blank or outside the 'ZN' convention                *)

CleanScripts == {"Claude.py", "create_corrected_zbm_reports.py"}

Blank == <<" ">>
HQ1 == <<"H", "Q", "1">>
\* the cells a raw tracker row is drawn from
RawRows ==
    {[zbm |-> z, zbmName |-> zn, abm |-> a, abmName |-> an, tbmHq |-> t] :
        z \in {NaN, Blank, ZN1, AB1}, zn \in {NaN, Blank, Asha},
        a \in {NaN, Blank, AB1}, an \in {NaN, Blank, Ravi}, t \in {NaN, Blank, HQ1}}

\* df.dropna(subset=['ZBM Terr Code', 'ZBM Name', 'ABM Terr Code', 'ABM Name', 'TBM HQ'])
dropna_subset(rows) ==
    SelectSeq(rows, LAMBDA r : /\ r.zbm # NaN /\ r.zbmName # NaN /\ r.abm # NaN
                               /\ r.abmName # NaN /\ r.tbmHq # NaN)
\* df[df[col].astype(str).str.strip() != ''] for the two codes and TBM HQ
drop_blank_codes(rows) ==
    SelectSeq(rows, LAMBDA r : ~is_blank(r.zbm) /\ ~is_blank(r.abm) /\ ~is_blank(r.tbmHq))
\* df[df['ZBM Terr Code'].astype(str).str.startswith('ZN')], in Claude.py only
keep_ZN(script, rows) ==
    IF script = "Claude.py" THEN SelectSeq(rows, LAMBDA r : startswith_ZN(r.zbm)) ELSE rows
clean_rows(script, rows) == keep_ZN(script, drop_blank_codes(dropna_subset(rows)))

InitClean ==
    /\ cscript \in CleanScripts
    /\ craw \in SeqsUpTo(RawRows, MaxRawRows)
    /\ cdf = <<>>
    /\ cpc = "raw"

\* the cleaning statements, in the order of the script
CleanTracker ==
    /\ cpc = "raw"
    /\ cdf' = clean_rows(cscript, craw)
    /\ cpc' = "cleaned"
    /\ UNCHANGED othersClean /\ UNCHANGED <<cscript, craw>>

NextClean == CleanTracker

----------------------------------------------------------------------------
(* The report round trip: create_zbm_excel_report of
   create_zbm_hierarchical_reports.py writes the ABM summary table into sheet
   'ZBM' of the template, read_zbm_summary_file of Othergalf.py reads it back *)

\* the value of an empty cell
None == <<"NoneType">>
S_Total == <<"T", "o", "t", "a", "l">>
S_TotalUpper == <<"T", "O", "T", "A", "L", " ">>
n_total == <<"t", "o", "t", "a", "l">>
AreaName == AB1 \o <<" ", "a", "n", "d", " ">> \o HQ1

\* the table has the columns E, F and G of the report; the code handles G
\* to V by the same loops (range(5, 23))
ReportColumns == 5..7
header_row == 7
data_start_row == 7
SafetyRow == 1000
\* the longest table of the round-trip statement (992 rows: rows 8 to 999,
\* 'Total' in row 1000) and the two lengths after it
ClaimedRows == SafetyRow - 8
LongTables == {ClaimedRows, ClaimedRows + 1, ClaimedRows + 2}

column_mapping == ("Area Name" :> 5) @@ ("ABM Name" :> 6) @@ ("Unique TBMs" :> 7)
\* row 7 of zbm_summary.xlsx
template_headers == (5 :> "Area Name") @@ (6 :> "ABM Name") @@ (7 :> "# Unique TBMs")
\* the template: the header row and a sample row in the data area
template ==
    [k \in ({header_row, 8} \X ReportColumns) |->
        IF k[1] = header_row THEN template_headers[k[2]]
        ELSE IF k[2] = 7 THEN 0 ELSE Asha]

\* one row of summary_df (lines 221-240)
SummaryRow(area, name, tbms) ==
    ("Area Name" :> area) @@ ("ABM Name" :> name) @@ ("Unique TBMs" :> tbms)
AbmNames == {Asha, S_Total, S_TotalUpper}
TableRows == {SummaryRow(AreaName, name, tbms) : name \in AbmNames, tbms \in 0..1}
LongTable(n) == [i \in 1..n |-> SummaryRow(AreaName, Asha, 1)]

\* ws.cell(row, column).value
cell_value(sheet, row, col) ==
    IF <<row, col>> \in DOMAIN sheet THEN sheet[<<row, col>>] ELSE None

Max(a, b) == IF a > b THEN a ELSE b
column_name_of(col) == CHOOSE name \in DOMAIN column_mapping : column_mapping[name] = col
\* summary_df[col_name].sum() over the rows lo..hi, by halves
RECURSIVE column_total(_, _, _, _)
column_total(table, name, lo, hi) ==
    IF lo > hi THEN 0
    ELSE IF lo = hi THEN table[lo][name]
    ELSE column_total(table, name, lo, (lo + hi) \div 2)
         + column_total(table, name, (lo + hi) \div 2 + 1, hi)

\* create_zbm_excel_report: the data area is cleared, row 8 + i gets row i of
\* the table, the row after the last one gets 'Total' in column F and the sums
create_zbm_excel_report(sheet, table) ==
    LET max_clear_rows == Max(Len(table) + 10, 100)
        cleared == (data_start_row + 1)..(data_start_row + max_clear_rows - 1)
        data_rows == (data_start_row + 1)..(data_start_row + Len(table))
        total_row_num == data_start_row + 1 + Len(table)
        totals == IF table = <<>> THEN {} ELSE {c \in ReportColumns : c > 6}
        kept == {k \in DOMAIN sheet : k[1] \notin cleared}
    IN [k \in kept \cup (data_rows \X ReportColumns) \cup ({total_row_num} \X ({6} \cup totals)) |->
           IF k[1] \in data_rows THEN table[k[1] - data_start_row][column_name_of(k[2])]
           ELSE IF k[1] = total_row_num
           THEN IF k[2] = 6 THEN S_Total ELSE column_total(table, column_name_of(k[2]), 1, Len(table))
           ELSE sheet[k]]

\* headers of read_zbm_summary_file: the cells of row 7, or Column_<n>
headers(sheet) ==
    [c \in ReportColumns |->
        IF <<header_row, c>> \in DOMAIN sheet THEN sheet[<<header_row, c>>] ELSE "Column_n"]
row_data(sheet, row_num) ==
    [h \in {headers(sheet)[c] : c \in ReportColumns} |->
        cell_value(sheet, row_num, CHOOSE c \in ReportColumns : headers(sheet)[c] = h)]
\* the row ends the table: its ABM Name cell is empty or reads 'total'
is_last_row(first_col) ==
    IF first_col = None THEN TRUE ELSE casefold(strip(Str(first_col))) = n_total

\* the while loop of read_zbm_summary_file (lines 384-402), by the row it
\* leaves at: the first row from 8 that ends the table, or the row after
\* SafetyRow, whose check 'row_num > 1000' follows the increment
stop_row(sheet) ==
    LET stops == {r \in 8..(SafetyRow + 1) :
                     IF r = SafetyRow + 1 THEN TRUE ELSE is_last_row(cell_value(sheet, r, 6))}
    IN CHOOSE r \in stops : \A q \in stops : r <= q
read_rows(sheet) == [i \in 1..(stop_row(sheet) - 8) |-> row_data(sheet, 7 + i)]

InitReport ==
    /\ summary_df \in SeqsUpTo(TableRows, MaxTableRows) \cup {LongTable(n) : n \in LongTables}
    /\ ws = template
    /\ read_result = [returned |-> FALSE, none |-> FALSE, data |-> <<>>]
    /\ xpc = "table"

\* create_zbm_hierarchical_reports.py, lines 252-449
CreateZbmExcelReport ==
    /\ xpc = "table"
    /\ ws' = create_zbm_excel_report(ws, summary_df)
    /\ xpc' = "written"
    /\ UNCHANGED othersReport
    /\ UNCHANGED <<summary_df, read_result>>

\* Othergalf.py, lines 352-414; with no data row pd.DataFrame([]) has no
\* string columns and df.columns.str raises in some pandas versions, the
\* function then returns None
ReadZbmSummaryFile ==
    /\ xpc = "written"
    /\ \E none \in BOOLEAN :
          /\ none => read_rows(ws) = <<>>
          /\ read_result' = [returned |-> TRUE, none |-> none, data |-> read_rows(ws)]
    /\ xpc' = "read"
    /\ UNCHANGED othersReport
    /\ UNCHANGED <<summary_df, ws>>

NextReport == CreateZbmExcelReport \/ ReadZbmSummaryFile


----------------------------------------------------------------------------
(* Specifications *)

\* a run of create_zbm_hierarchical_reports (Claude.py)
Init == InitRun /\ IdleNorm /\ IdleRules /\ IdleTotal /\ IdleMail /\ IdleSummary /\ IdleClean /\ IdleReport
Next == NextRun
Spec == Init /\ [][Next]_vars

\* the normalizers on arbitrary short strings
InitNormSpec == InitNorm /\ IdleRun /\ IdleRules /\ IdleTotal /\ IdleMail /\ IdleSummary /\ IdleClean /\ IdleReport
SpecNorm == InitNormSpec /\ [][NextNorm]_vars

\* rule-table construction and resolution in each script
InitRulesSpec == InitRules /\ IdleRun /\ IdleNorm /\ IdleTotal /\ IdleMail /\ IdleSummary /\ IdleClean /\ IdleReport
SpecRules == InitRulesSpec /\ [][NextRules]_vars

\* the total row of a summary table
InitTotalSpec == InitTotal /\ IdleRun /\ IdleNorm /\ IdleRules /\ IdleMail /\ IdleSummary /\ IdleClean /\ IdleReport
SpecTotal == InitTotalSpec /\ [][NextTotal]_vars

\* the scripts that prepare Outlook drafts
InitMailSpec == InitMail /\ IdleRun /\ IdleNorm /\ IdleRules /\ IdleTotal /\ IdleSummary /\ IdleClean /\ IdleReport
SpecMail == InitMailSpec /\ [][NextMail]_vars

\* the summary table of one ZBM in each script
InitSummarySpec ==
    InitSummary /\ IdleRun /\ IdleNorm /\ IdleRules /\ IdleTotal /\ IdleMail /\ IdleClean /\ IdleReport
SpecSummary == InitSummarySpec /\ [][NextSummary]_vars

\* the cleaning step on raw rows
InitCleanSpec ==
    InitClean /\ IdleRun /\ IdleNorm /\ IdleRules /\ IdleTotal /\ IdleMail /\ IdleSummary
    /\ IdleReport
SpecClean == InitCleanSpec /\ [][NextClean]_vars

\* the report round trip alone
InitReportSpec ==
    InitReport /\ IdleRun /\ IdleNorm /\ IdleRules /\ IdleTotal /\ IdleMail /\ IdleSummary
    /\ IdleClean
SpecReport == InitReportSpec /\ [][NextReport]_vars

----------------------------------------------------------------------------
(* Claims about the funnel of Claude.py, checked under Spec *)

InAbmLoop == pc = "zbm_loop" /\ zi <= Len(zbms_of(df))

\* the tracker rows behind row j of summary_data
GroupRows(j) == abm_data_of(zbm_data_of(df, current_zbm), current_abms[j])
DistinctIds(rows) == {rows[i].req : i \in DOMAIN rows}
FinalAnswersIn(rows) == {rows[i].fa : i \in DOMAIN rows}
Cell(j, col) == summary_data[j].cells[col]

\* the mismatch warnings printed for ABM group (zbm, abm)
MismatchLines(zbm_code, abm) ==
    {i \in DOMAIN log : /\ log[i].kind = "mismatch" /\ log[i].zbm = zbm_code
                        /\ log[i].abm = abm.code /\ log[i].name = abm.name}

\* C1: in every ABM group whose Final Answers are all among the eight mapped
\* values, Requests Raised equals the number of distinct request ids.
C1_RaisedEqualsDistinctIds ==
    InAbmLoop =>
        \A j \in DOMAIN summary_data :
            FinalAnswersIn(GroupRows(j)) \subseteq mapped_answers
                => Cell(j, "Requests Raised") = Cardinality(DistinctIds(GroupRows(j)))

FunnelHolds(c) ==
    /\ c["Requests Dispatched"] = c["Delivered"] + c["Dispatched In Transit"] + c["RTO"]
    /\ c["Sent to HUB"] = c["Pending for Invoicing"] + c["Pending for Dispatch"]
                          + c["Requests Dispatched"]
    /\ c["Requests Raised"] = c["Request Cancelled Out of Stock"] + c["Action Pending at HO"]
                              + c["Sent to HUB"]

\* C2: the three additive funnel identities hold for every ABM summary row and
\* for the total row of every written report.
C2_FunnelIdentities ==
    /\ \A j \in DOMAIN summary_data : FunnelHolds(summary_data[j].cells)
    /\ \A k \in DOMAIN reports :
          /\ FunnelHolds(reports[k].total)
          /\ \A j \in DOMAIN reports[k].rows : FunnelHolds(reports[k].rows[j].cells)

\* a report of two ABM rows that both count a request in Pending for Invoicing
C2_Witness ==
    \E k \in DOMAIN reports :
        /\ Len(reports[k].rows) = 2
        /\ \A j \in 1..2 : reports[k].rows[j].cells["Pending for Invoicing"] = 1
        /\ reports[k].total["Requests Raised"] >= 2

\* C3: a group whose Requests Raised differs from its number of distinct
\* request ids gets a mismatch warning that lists exactly the Final Answers of
\* the group outside the mapped values; its row is appended all the same, and
\* at the end of the run every ABM group of every ZBM has been processed.
C3_MismatchSurfaced ==
    /\ InAbmLoop =>
          /\ Len(summary_data) = ai - 1
          /\ \A j \in DOMAIN summary_data :
                /\ summary_data[j].abm_code = current_abms[j].code
                /\ Cell(j, "Requests Raised") # Cardinality(DistinctIds(GroupRows(j)))
                     => \E i \in MismatchLines(current_zbm, current_abms[j]) :
                           log[i].unmapped = FinalAnswersIn(GroupRows(j)) \ mapped_answers
    /\ pc = "done" =>
          \A r \in DOMAIN df :
              \E i \in DOMAIN log : /\ log[i].kind = "processing" /\ log[i].zbm = df[r].zbm
                                    /\ log[i].abm = df[r].abm /\ log[i].name = df[r].abmName

\* the run ended after a warning that lists the sentinel for the first group
\* of a tracker with two groups
C3_Witness ==
    /\ pc = "done"
    /\ \E i \in DOMAIN log : /\ log[i].kind = "mismatch" /\ log[i].unmapped = {NoMatchingRule}
                             /\ \E k \in DOMAIN log : k > i /\ log[k].kind = "processing"

\* C4: every group holding a request resolved to the unmatched sentinel has
\* the sentinel reported as uncovered by the group's funnel check.
C4_SentinelReported ==
    InAbmLoop =>
        \A j \in DOMAIN summary_data :
            NoMatchingRule \in FinalAnswersIn(GroupRows(j))
                => \E i \in MismatchLines(current_zbm, current_abms[j]) :
                       NoMatchingRule \in log[i].unmapped

\* the normalized, deduplicated, sorted status key of the request of row r
KeyOfRow(r) ==
    sorted_set({normalize(df[i].status) : i \in {k \in DOMAIN df : df[k].req = df[r].req}})
Resolved == pc \in {"zbm_loop", "done"}

\* C5: a request whose key is absent from the rule table is resolved to the
\* unmatched sentinel, never to a raw status or another value.
C5_AbsentKeyGivesSentinel ==
    Resolved => \A r \in DOMAIN df :
                    KeyOfRow(r) \notin DOMAIN rules => df[r].fa = NoMatchingRule

\* a request with two raw statuses and no rule for the pair
C5_Witness ==
    /\ Resolved
    /\ \E r \in DOMAIN df : /\ Len(KeyOfRow(r)) = 2 /\ KeyOfRow(r) \notin DOMAIN rules
                            /\ rules # <<>>
                            /\ df[r].fa = NoMatchingRule

\* the rows of df that belong to the request of row r
RowsOfRequest(r) == {k \in DOMAIN df : df[k].req = df[r].req}

\* C12: a request is flagged Has D Pending exactly when one of its raw
\* statuses normalizes to 'action pending / in process'; neither the rule
\* table nor the request's Final Answer enters the flag.
C12_FlagIffPendingStatus ==
    Resolved =>
        \A r \in DOMAIN df :
            df[r].hasD = (n_apip \in {normalize(df[k].status) : k \in RowsOfRequest(r)})

\* a flagged request with two statuses whose Final Answer is 'Delivered'
C12_Witness ==
    /\ Resolved
    /\ \E r \in DOMAIN df :
          /\ df[r].hasD = TRUE /\ df[r].fa = S_Delivered
          /\ Cardinality(RowsOfRequest(r)) = 2

\* the request ids of a group that are flagged Has D Pending
FlaggedIds(rows) == {rows[i].req : i \in {k \in DOMAIN rows : rows[k].hasD = TRUE}}
IdsAnswered(rows, answer) == {rows[i].req : i \in {k \in DOMAIN rows : rows[k].fa = answer}}

\* C13: in every ABM group, Pending for Invoicing (D) counts every flagged
\* request and Action Pending at HO (B) counts none of them, whatever their
\* Final Answer.
C13_FlaggedInDNotB ==
    InAbmLoop =>
        \A j \in DOMAIN summary_data :
            /\ Cell(j, "Pending for Invoicing") = Cardinality(FlaggedIds(GroupRows(j)))
            /\ Cell(j, "Action Pending at HO")
                  = Cardinality(IdsAnswered(GroupRows(j), S_APIP) \ FlaggedIds(GroupRows(j)))

\* a group whose only request is flagged and resolved to 'Action pending /
\* In Process': it is counted in D and not in B
C13_Witness ==
    /\ InAbmLoop
    /\ \E j \in DOMAIN summary_data :
          /\ FlaggedIds(GroupRows(j)) # {}
          /\ FlaggedIds(GroupRows(j)) \subseteq IdsAnswered(GroupRows(j), S_APIP)
          /\ Cell(j, "Pending for Invoicing") = 1
          /\ Cell(j, "Action Pending at HO") = 0

\* the counters the run computes for ABM group (zbm_code, abm) from tracker t
\* and rule sheet s
CountersOf(t, s, zbm_code, abm) ==
    LET cleaned  == clean(t)
        resolved == merge_final_answer(cleaned, grouped_of(cleaned, build_rules("Claude", s)))
    IN abm_summary(abm, abm_data_of(zbm_data_of(resolved, zbm_code), abm)).cells
\* the rows of the tracker that are copies of another row
DuplicateRows == {i \in DOMAIN tracker : \E k \in DOMAIN tracker \ {i} : tracker[k] = tracker[i]}

\* C14: the counters of every ABM group are those of the tracker without any
\* one of its duplicate rows: a repeated copy of a row (same request id,
\* status, ZBM and ABM) changes no counter of any group.
C14_DuplicateRowInvariant ==
    InAbmLoop =>
        \A i \in DuplicateRows :
            /\ zbms_of(clean(RemoveAt(tracker, i))) = zbms_of(df)
            /\ abms_of(zbm_data_of(clean(RemoveAt(tracker, i)), current_zbm)) = current_abms
            /\ \A j \in DOMAIN summary_data :
                  summary_data[j].cells
                    = CountersOf(RemoveAt(tracker, i), sheet2, current_zbm, current_abms[j])

\* a tracker of one row and its copy: the group is counted as one request
C14_Witness ==
    /\ InAbmLoop
    /\ DuplicateRows # {}
    /\ \E j \in DOMAIN summary_data :
          /\ Cell(j, "Unique Requests") = 1
          /\ Cell(j, "Requests Raised") = 1
          /\ Len(GroupRows(j)) = 2

\* the ZBMs whose loop iteration is over, and what the run left of each
ProcessedZbms == {zbms_of(df)[k] : k \in 1..(zi - 1)}
ReportWritten(zbm_code) == \E k \in DOMAIN reports : reports[k].zbm = zbm_code
FailureLogged(zbm_code) ==
    \E i \in DOMAIN log : log[i].kind = "report_error" /\ log[i].zbm = zbm_code

\* C17: a ZBM whose processing fails has the failure logged, and the run ends
\* only after the last ZBM: it never stops at a failing ZBM.
C17_PerManagerIsolation ==
    /\ pc \in {"zbm_loop", "done", "crashed"} =>
          \A z \in ProcessedZbms : ReportWritten(z) \/ FailureLogged(z)
    /\ pc \in {"done", "crashed"} => zi > Len(zbms_of(df))

\* the required columns the tracker lacks
MissingRequired == SeqToSet(required_columns) \ columns
NothingStarted ==
    /\ df = <<>> /\ rules = <<>> /\ output_dir = FALSE /\ reports = <<>>
    /\ summary_data = <<>> /\ log = <<>> /\ zi = 1 /\ ai = 1

\* C20: when the tracker cannot be read or lacks a required column, the run
\* aborts before resolution, output directory, reports and ZBM processing,
\* and the diagnostic lists exactly the missing required columns.
C20_MissingInputAborts ==
    /\ (~readable \/ MissingRequired # {}) => (pc \in {"read", "aborted"} /\ NothingStarted)
    /\ (pc = "aborted" /\ ~readable) => diag.kind = "read_error"
    /\ (pc = "aborted" /\ readable /\ MissingRequired # {}) =>
          /\ diag.kind = "missing_columns"
          /\ SeqToSet(diag.missing) = MissingRequired
          /\ Len(diag.missing) = Cardinality(MissingRequired)

\* the run aborted on a tracker that lacks two required columns
C20_Witness ==
    /\ pc = "aborted"
    /\ tracker # <<>>
    /\ diag.kind = "missing_columns"
    /\ diag.missing = <<"TBM HQ", "Request Status">>

\* the rows of the working dataframe carry the raw status as Final Answer
RawStatusIsFinal == \A i \in DOMAIN df : df[i].fa = df[i].status
\* the ZBMs of the cleaned tracker
CleanedZbms == SeqToSet(zbms_of(clean(tracker)))

\* C21: when logic.xlsx cannot be loaded or lacks the column 'Final Answer',
\* the run does not abort: once resolution is over every row carries its raw
\* Request Status as Final Status, the fallback is reported, the aggregation
\* goes on and the finished run has handled every ZBM.
C21_RuleSourceFallback ==
    (rules_load_raises(rule_source, sheet2) /\ pc \notin {"read", "resolve"}) =>
        /\ pc # "aborted"
        /\ RawStatusIsFinal
        /\ diag # <<>> /\ diag.kind = "rules_fallback"
        /\ pc = "done" => \A z \in CleanedZbms : ReportWritten(z) \/ FailureLogged(z)

\* the leaf filters that select request q in the group behind row j
LeavesCounting(j, q) ==
    {col \in LeafColumns : q \in leaf_members(unique_requests_df(GroupRows(j)))[col]}
\* every leaf counter of a row is the size of its filter's selection
LeafCountersAreSelections ==
    InAbmLoop =>
        \A j \in DOMAIN summary_data : \A col \in LeafColumns :
            Cell(j, col) = Cardinality(leaf_members(unique_requests_df(GroupRows(j)))[col])

\* C26: within one ABM group every distinct request id is counted in at most
\* one of the leaf counters A, B, D, E, G, H, I.
C26_LeafCountersPartition ==
    InAbmLoop =>
        \A j \in DOMAIN summary_data :
            \A q \in request_ids(GroupRows(j)) : Cardinality(LeavesCounting(j, q)) <= 1

----------------------------------------------------------------------------
(* Claims about the normalizer, checked under SpecNorm *)

HasDoubleSpace(s) == \E i \in 1..(Len(s) - 1) : s[i] = " " /\ s[i + 1] = " "

\* C6: normalizing twice gives the same string as normalizing once.
C6_NormalizeIdempotent == npc = "twice" => ntwice = nout

\* the rule table of one sheet row whose only status cell is nraw
OneRuleTable == build_rules(nvariant, <<[cells |-> <<nraw>>, fa |-> S_Delivered]>>)

\* C7: two spellings of a status that differ only in letter case, outer
\* whitespace or the length of runs of interior spaces normalize to the same
\* string, which has no two consecutive spaces, so a request spelled one way
\* is matched by the rule spelled the other way.
C7_FormattingInsensitive ==
    npc # "input" =>
        /\ nout = nout_alt
        /\ ~HasDoubleSpace(nout)
        /\ resolve(nvariant, OneRuleTable, <<nalt>>) = S_Delivered

----------------------------------------------------------------------------
(* Claims about the rule table, checked under SpecRules *)

\* C8: a request whose rows carry exactly the statuses of a table entry, in
\* any order and with any repetitions, resolves to that entry's Final Answer.
C8_LookupOrderIndependent == rpc = "done" => ranswer = rdict[rkey]

\* the canonical form of a key: deduplicated and sorted
Canonical(key) == sorted_set(SeqToSet(key))
TableBuilt == rpc \in {"resolve", "done", "null_done", "raw_done"}

\* C9: every key of the rule table is a sorted, duplicate-free tuple of
\* normalized (stripped, case-folded) statuses, the form of a candidate key.
C9_KeysCanonical ==
    TableBuilt =>
        \A key \in DOMAIN rdict :
            /\ key = Canonical(key)
            /\ \A i \in DOMAIN key : key[i] = casefold(strip(key[i]))

\* the rule definitions in the order they are made: the sheet rows, then the
\* additional rules; each with the canonical key it defines
Definitions ==
    [i \in DOMAIN rsheet |-> [key |-> rule_key(rvariant, rsheet[i]), fa |-> rsheet[i].fa]]
    \o [i \in DOMAIN additional_rules(rvariant) |->
            [key |-> Canonical(additional_rules(rvariant)[i].key),
             fa |-> additional_rules(rvariant)[i].fa]]
DefinedAt(key) == {i \in DOMAIN Definitions : Definitions[i].key = key}
LastDefined(key) ==
    Definitions[CHOOSE i \in DefinedAt(key) : \A j \in DefinedAt(key) : j <= i].fa

\* C10: when a canonical key is defined more than once, the Final Answer used
\* for resolution is the one defined last, the additional rules coming after
\* every sheet row.
C10_LastWriteWins ==
    rpc = "done" =>
        LET key == candidate_key(rvariant, rstatuses)
        IN Cardinality(DefinedAt(key)) >= 2 => ranswer = LastDefined(key)

\* C11: in the resolver of Claude.py a row whose Request Status is null does
\* not change the request's candidate key nor its Final Answer.
C11_NullsIgnored ==
    (rpc = "null_done" /\ rvariant = "Claude") =>
        /\ candidate_key("Claude", rwithnull) = candidate_key("Claude", rstatuses)
        /\ ranswer_null = ranswer

\* the same statement for compute_final_answer of create_corrected_zbm_reports.py
NullsIgnoredCorrected ==
    (rpc = "null_done" /\ rvariant = "corrected") => ranswer_null = ranswer

\* the key compute_final_answer looks up for a request with these statuses
CorrectedKey(lst) == sorted_set({normalize_corrected(s) : s \in SeqToSet(dropna(lst))})
MostFrequent(lst) ==
    {v \in SeqToSet(dropna(lst)) :
        \A w \in SeqToSet(dropna(lst)) : Occurrences(lst, w) <= Occurrences(lst, v)}
Reversed(lst) == [i \in DOMAIN lst |-> lst[Len(lst) + 1 - i]]

\* C24: compute_final_answer of create_corrected_zbm_reports.py gives a
\* request whose key is in the rule table the rule's value; a request whose
\* key is absent gets one of its most frequent raw statuses, or 'Unknown'
\* when it has no non-null status; the answer does not depend on the order
\* of the request's rows.
C24_MostCommonFallback ==
    (rpc \in {"done", "raw_done"} /\ rvariant = "corrected") =>
        /\ CorrectedKey(rstatuses) \in DOMAIN rdict => ranswer = rdict[CorrectedKey(rstatuses)]
        /\ CorrectedKey(rstatuses) \notin DOMAIN rdict =>
              IF dropna(rstatuses) = <<>> THEN ranswer = S_Unknown
              ELSE ranswer \in MostFrequent(rstatuses)
        /\ ranswer = compute_final_answer(rdict, Reversed(rstatuses))

\* an unmatched request with two 'Request Raised' rows around a 'Delivered'
\* row, resolved to 'Request Raised' although 'Delivered' sorts first
C24_Witness ==
    /\ rpc = "raw_done" /\ rvariant = "corrected"
    /\ rstatuses = <<S_RequestRaised, S_Delivered, S_RequestRaised>>
    /\ CorrectedKey(rstatuses) \notin DOMAIN rdict
    /\ ranswer = S_RequestRaised

\* a request without any non-null status, resolved to 'Unknown'
AllNullRequest ==
    /\ rpc = "raw_done" /\ rvariant = "corrected" /\ rstatuses = <<NaN, NaN>>
    /\ ranswer = S_Unknown

----------------------------------------------------------------------------
(* Claims about the total row, checked under SpecTotal *)

\* the number a table cell shows
RECURSIVE parse_int(_)
parse_int(text) ==
    IF text = <<>> THEN 0
    ELSE 10 * parse_int(SubSeq(text, 1, Len(text) - 1)) + (Code(text[Len(text)]) - Code("0"))

\* the sum of column col over the first n data rows
RECURSIVE SumOfFirst(_, _)
SumOfFirst(n, col) == IF n = 0 THEN 0 ELSE SumOfFirst(n - 1, col) + tsummary[n].cells[col]

\* C15: every numeric cell of the total row, in the spreadsheet report and in
\* the HTML email table, is the sum of its column over the ABM data rows.
C15_TotalRowIsColumnSum ==
    \A col \in NumericColumns :
        /\ texcel_total # <<>>
              => texcel_total[col] = SumOfFirst(Len(tsummary), col)
        /\ thtml_total # <<>>
              => parse_int(thtml_total[col]) = SumOfFirst(Len(tsummary), col)

\* two ABM rows with Requests Raised 3 and 5: both total rows show 8
C15_Witness ==
    /\ Len(tsummary) = 2
    /\ tsummary[1].cells["Requests Raised"] = 3
    /\ tsummary[2].cells["Requests Raised"] = 5
    /\ texcel_total # <<>> /\ texcel_total["Requests Raised"] = 8
    /\ thtml_total # <<>> /\ thtml_total["Requests Raised"] = <<"8">>

----------------------------------------------------------------------------
(* Claims about the draft scripts, checked under SpecMail *)

\* the ZBM codes in the order their processing started
ProcessingLines == {i \in DOMAIN mlog : mlog[i].kind = "processing"}
Ascending(codes) ==
    \A i, j \in DOMAIN codes : i < j => ~StrLess(codes[j], codes[i])

\* C16: the ZBMs are processed in ascending territory-code order, and the
\* summary rows of every draft are in ascending ABM territory-code order.
C16_AscendingOrder ==
    /\ \A i, j \in ProcessingLines : i < j => ~StrLess(mlog[j].zbm, mlog[i].zbm)
    /\ \A k \in DOMAIN outlook.items : Ascending(outlook.items[k].HTMLBody.rows)

\* the ZBMs whose iteration is over
Handled == {mwork[k] : k \in 1..(mi - 1)}
DraftsOf(zbm_code) ==
    {k \in DOMAIN outlook.items : outlook.items[k].zbm = zbm_code /\ outlook.items[k].displayed}
CountedAs(kind, zbm_code) == \E i \in DOMAIN mlog : mlog[i] = [kind |-> kind, zbm |-> zbm_code]
NoAttachmentFound(zbm_code) == menv[zbm_code].attachment \in {"not_found", "path_gone"}
ClientRaises(zbm_code) == menv[zbm_code].fault \in {"aggregate", "create", "display"}
\* the iteration is left before the summary is built
LeavesEarly(zbm_code) == menv[zbm_code].fault = "skip"

\* C18: in send_zbm_emails.py and Othergalf.py a ZBM for which no attachment
\* file is found gets, unless the summary or the mail client itself raises,
\* a displayed draft with recipient, CC, subject and HTML body set and no
\* attachment, and is counted as a success.
C18_MissingAttachmentIsNoFailure ==
    mscript \in {"send_zbm_emails.py", "Othergalf.py"} =>
        \A z \in Handled :
            (NoAttachmentFound(z) /\ ~ClientRaises(z) /\ ~LeavesEarly(z)) =>
                /\ CountedAs("success", z) /\ ~CountedAs("error", z)
                /\ \E k \in DraftsOf(z) :
                      /\ outlook.items[k].To = email_of(z)
                      /\ outlook.items[k].CC = cc_emails_of(mscript, z)
                      /\ outlook.items[k].Subject = subject_line
                      /\ outlook.items[k].HTMLBody = email_content_of(z)
                      /\ outlook.items[k].Attachments = <<>>

\* a finished run in which a ZBM without attachment file was counted as a
\* success next to a ZBM whose draft has its attachment
C18_Witness ==
    /\ mpc = "done"
    /\ mscript = "send_zbm_emails.py"
    /\ success_count = 2
    /\ \E z \in Handled : NoAttachmentFound(z) /\ DraftsOf(z) # {}
    /\ \E k \in DOMAIN outlook.items : outlook.items[k].Attachments # <<>>

\* C19: no message is ever sent: every item the scripts create is at most
\* displayed.
C19_NothingIsSent == outlook.sent = {}

\* a finished run that displayed a draft for every ZBM
C19_Witness ==
    /\ mpc = "done"
    /\ \A z \in MailZbms : DraftsOf(z) # {}

\* the same order statement for the scripts that take the ZBMs from the tracker
AscendingOrderFromTracker == mscript # "Othergalf.py" => C16_AscendingOrder

\* the HTML files written for a ZBM
HtmlFilesOf(zbm_code) == {k \in DOMAIN html_files : html_files[k].zbm = zbm_code}
\* the message the draft path of the script sets up for a ZBM
DraftPayload(zbm_code) ==
    [To |-> email_of(zbm_code), CC |-> cc_emails_of(mscript, zbm_code),
     Subject |-> subject_line, HTMLBody |-> email_content_of(zbm_code)]
FilePayload(f) == [To |-> f.To, CC |-> f.CC, Subject |-> f.Subject, HTMLBody |-> f.HTMLBody]
GetsDraft(zbm_code) == menv[zbm_code].fault \notin {"aggregate", "skip"}

\* C23: without mail client Othergalf.py writes, for exactly the ZBMs that
\* would have got a draft, one HTML file with the recipient, the CC list (the
\* ABM emails of the ZBM), the subject and the table of that draft.
C23_HtmlFallbackSamePayload ==
    (mscript = "Othergalf.py" /\ ~mclient) =>
        \A z \in Handled :
            /\ (HtmlFilesOf(z) # {}) = GetsDraft(z)
            /\ \A k \in HtmlFilesOf(z) : FilePayload(html_files[k]) = DraftPayload(z)

\* the same statement for the fallback of send_zbm_emails.py, which passes
\* the CC list on
HtmlFallbackOfTrackerScript ==
    (mscript = "send_zbm_emails.py" /\ ~mclient) =>
        \A z \in Handled :
            /\ (HtmlFilesOf(z) # {}) = GetsDraft(z)
            /\ \A k \in HtmlFilesOf(z) : FilePayload(html_files[k]) = DraftPayload(z)

\* the drafts displayed so far
Displayed == {k \in DOMAIN outlook.items : outlook.items[k].displayed}

\* C29: every iteration of a draft loop increments exactly one of the two
\* counters: the counters add up to the number of iterations made, and the
\* success counter is the number of drafts displayed.
C29_CountersPartitionIterations ==
    (mclient /\ mpc \in {"loop", "done"}) =>
        /\ success_count + error_count = mi - 1
        /\ success_count = Cardinality(Displayed)
        /\ mpc = "done" => success_count + error_count = Len(mwork)

\* a finished run of create_zbm_outlook_emails.py in which one ZBM was
\* skipped for its missing address and the other got its draft
C29_Witness ==
    /\ mpc = "done" /\ mclient
    /\ mscript = "create_zbm_outlook_emails.py"
    /\ success_count = 1 /\ error_count = 1
    /\ \E z \in Handled : LeavesEarly(z)

----------------------------------------------------------------------------
(* Claims about the summary table of a ZBM, checked under SpecSummary *)

\* the summary rows built for ABM (code, name)
RowsFor(code, name) ==
    {j \in DOMAIN srows : srows[j].abm_code = code /\ srows[j].abm_name = name}

\* C25: the table of a ZBM has a summary row for every (ABM Terr Code, ABM
\* Name) pair of the ZBM's cleaned rows, whether or not the ABM has an email
\* address, in Claude.py and in send_zbm_emails.py.
C25_EveryAbmHasRow ==
    (spc = "done" /\ sscript \in {"Claude.py", "send_zbm_emails.py"}) =>
        \A i \in DOMAIN sdata : RowsFor(sdata[i].abm, sdata[i].abmName) # {}

\* the same statement for the report generator alone
EveryAbmHasRowInReport ==
    (spc = "done" /\ sscript = "Claude.py") =>
        \A i \in DOMAIN sdata : RowsFor(sdata[i].abm, sdata[i].abmName) # {}

\* the rows of abms that select tracker row i into their abm_data
FramesSelecting(i) ==
    {j \in DOMAIN sabms :
        \E k \in DOMAIN abm_rows(sscript, sdata, sabms[j]) :
            abm_rows(sscript, sdata, sabms[j])[k] = sdata[i]}
AbmCodes == {sdata[i].abm : i \in DOMAIN sdata}

\* C27: in create_corrected_zbm_reports.py and create_zbm_outlook_emails.py
\* every ABM Terr Code of the ZBM has exactly one summary row and every
\* tracker row of the ZBM is selected for exactly one summary row.
C27_OneRowPerAbmCode ==
    (spc = "done" /\ sscript \in {"create_corrected_zbm_reports.py",
                                  "create_zbm_outlook_emails.py"}) =>
        /\ Len(srows) = Len(sabms)
        /\ \A c \in AbmCodes :
              Cardinality({j \in DOMAIN srows : srows[j].abm_code = c}) = 1
        /\ \A i \in DOMAIN sdata : Cardinality(FramesSelecting(i)) = 1

\* the key of request q among rows, as the resolver of the script computes it
RequestKey(script, rows, q) ==
    IF variant_of(script) = "corrected"
    THEN sorted_set({normalize_corrected(s) : s \in SeqToSet(dropna(column_of(rows, q)))})
    ELSE candidate_key(variant_of(script), status_list_of(rows, q))
AdditionalKeys(script) ==
    {additional_rules(variant_of(script))[n].key :
        n \in DOMAIN additional_rules(variant_of(script))}
LeafColumnsByAnswer == LeafColumns \ {"Pending for Invoicing"}

\* C28: in hierarchical_zbm_summary.py and create_corrected_zbm_reports.py a
\* request resolved through one of the additional rules is counted in
\* exactly one of the leaf counters A, B, E, G, H, I of every ABM row whose
\* rows contain it.
C28_AdditionalAnswersCounted ==
    (spc = "done" /\ sscript \in {"hierarchical_zbm_summary.py",
                                  "create_corrected_zbm_reports.py"}) =>
        \A j \in DOMAIN sabms :
            \A q \in request_ids(abm_rows(sscript, sdata, sabms[j])) :
                RequestKey(sscript, sdata, q) \in AdditionalKeys(sscript) =>
                    Cardinality({col \in LeafColumnsByAnswer :
                        q \in script_leaf_members(sscript,
                                  abm_rows(sscript, sdata, sabms[j]))[col]}) = 1

----------------------------------------------------------------------------
(* Claims about the cleaning step, checked under SpecClean *)

Present(v) == v # NaN /\ ~is_blank(v)

\* C22: every row left by the cleaning step has non-null, non-blank ZBM, ABM
\* and TBM identifier and name fields and a ZBM Terr Code starting with 'ZN',
\* in Claude.py and in create_corrected_zbm_reports.py.
C22_CleanedRowsAreComplete ==
    cpc = "cleaned" =>
        \A i \in DOMAIN cdf :
            /\ Present(cdf[i].zbm) /\ Present(cdf[i].zbmName)
            /\ Present(cdf[i].abm) /\ Present(cdf[i].abmName)
            /\ Present(cdf[i].tbmHq)
            /\ startswith_ZN(cdf[i].zbm)

\* what the cleaning statements do establish: no null key field, no blank
\* code or TBM HQ, and in Claude.py the 'ZN' prefix
CleanedRowsHaveCodes ==
    cpc = "cleaned" =>
        \A i \in DOMAIN cdf :
            /\ Present(cdf[i].zbm) /\ Present(cdf[i].abm) /\ Present(cdf[i].tbmHq)
            /\ cdf[i].zbmName # NaN /\ cdf[i].abmName # NaN
            /\ cscript = "Claude.py" => startswith_ZN(cdf[i].zbm)
----------------------------------------------------------------------------
(* Claims about the report round trip, checked under SpecReport *)

\* the record read_zbm_summary_file builds from a written row: the cells
\* under the headers of the template
RecordOf(row) ==
    [h \in {template_headers[c] : c \in ReportColumns} |->
        row[column_name_of(CHOOSE c \in ReportColumns : template_headers[c] = h)]]
WrittenRecords == [i \in 1..Len(summary_df) |-> RecordOf(summary_df[i])]
ReadsTotal(name) == casefold(strip(Str(name))) = n_total
NamedTotal == {i \in 1..Len(summary_df) : ReadsTotal(summary_df[i]["ABM Name"])}

\* C30: a table of up to 992 rows written by create_zbm_excel_report is
\* read back by read_zbm_summary_file as one record per ABM row, in the same
\* order and with the same cell values, without the total row.
C30_ReportRoundTrip ==
    (xpc = "read" /\ Len(summary_df) <= ClaimedRows) =>
        read_result.data = WrittenRecords

\* the round trip of the tables in which no ABM Name reads 'total'; the
\* safety check admits one row more than 992
RoundTripWithoutTotalNames ==
    (xpc = "read" /\ Len(summary_df) <= ClaimedRows + 1 /\ NamedTotal = {}) =>
        read_result.data = WrittenRecords
\* a table is read up to its first ABM named 'total' and up to row 1000
ReadIsPrefix ==
    xpc = "read" =>
        /\ Len(read_result.data) <= Len(summary_df)
        /\ read_result.data = SubSeq(WrittenRecords, 1, Len(read_result.data))
        /\ \A i \in NamedTotal : Len(read_result.data) < i
        /\ Len(read_result.data) <= SafetyRow - data_start_row

====
